---- MODULE Spec2Model ----
(***************************************************************************)
(* A model of the cs_tools API client core:                                *)
(*   - the workflow orchestrators fetch_all / fetch / permissions over a   *)
(*     BoundedTaskGroup (cs_tools/api/workflows/metadata.py, utils.py),    *)
(*   - the transport of RESTAPIClient: admission gate, retry policy and    *)
(*     response cache (cs_tools/api/client.py),                            *)
(*   - dependents and tml_export (cs_tools/api/workflows/metadata.py),     *)
(*   - the session calls and the keepalive task of RESTAPIClient,          *)
(*   - the pagination drain of AnswerMiddleware.all                        *)
(*     (cs_tools/middlewares/answer.py).                                   *)
(* Each part has its own specification over the shared variables; the      *)
(* parts a specification does not run stay idle.                           *)
(***************************************************************************)
EXTENDS Integers, Sequences, FiniteSets, TLC

VARIABLES
    \* ---- one orchestrator call over a BoundedTaskGroup ----
    orch,        \* which orchestrator is running
    nUnits,      \* number of units of work of the batch
    compat_ts_version, \* the `compat_ts_version` argument of permissions, as <<major, minor, patch>>
    calls,       \* unit k -> the client call its coroutine makes: <<method, request shape, timeout>>
    out_of_order, \* whether some task has finished before a task created earlier
    max_concurrent, \* BoundedTaskGroup._max_concurrent
    gpc,         \* position of the orchestrator coroutine
    unit,        \* unit k -> state of its task
    out,         \* unit k -> outcome of its task
    gsem,        \* value of BoundedTaskGroup._semaphore
    errors,      \* TaskGroup._errors: units whose failure the group has recorded
    aborting,    \* TaskGroup._aborting
    cancelReq,   \* units whose task.cancel() was called and is not yet delivered
    idx,         \* index of the task being classified (the `for task in tasks` loop)
    results,     \* the orchestrator's `results` list
    raisedExc,   \* the exception leaving the orchestrator, "none" if there is none
    \* ---- requests through one RESTAPIClient ----
    concurrency, \* the `concurrency` argument of RESTAPIClient.__init__
    free,        \* value of the transport's admission semaphore
    pc,          \* caller -> position of its request
    endpoint,    \* caller -> endpoint of its request
    hist,        \* caller -> outcomes of the attempts made so far
    waits,       \* caller -> backoff delays slept so far
    rlog,        \* caller -> attempt numbers logged by before_sleep
    events,      \* caller -> what the retry loop did for the request, in order
    delivered,   \* caller -> what the caller received
    \* ---- the response cache of one RESTAPIClient, one caller at a time ----
    cache_directory, \* the `cache_directory` argument of RESTAPIClient.__init__
    store,       \* the Cache Policy's entries: fingerprint -> cached content
    creq,        \* the request in progress: <<endpoint, body, cache-bust marker>>
    cpc,         \* position of the request in progress
    cattempt,    \* number of the attempt in progress
    cnet,        \* network calls made for the request in progress
    cresp,       \* what the caller received: <<origin, result, content, marker>>
    previous,    \* the request answered just before: <<endpoint, body, marker, content>>
    \* ---- one call of dependents ----
    dpc,         \* position of the dependents coroutine
    dstatus,     \* how the search of the root ended, "none" before it has
    dtype,       \* metadata_type of the root record
    dchild,      \* child table i -> state of its metadata_search call
    dobjects,    \* `d`: the records expanded, each <<metadata_id, dependents in iteration order>>
    dreqs,       \* requests issued by the call so far
    dresult,     \* the list returned (`all_dependents`), each record <<guid, origin>>
    draised,     \* the exception leaving dependents, "none" if there is none
    \* ---- one call of tml_export ----
    xpc,         \* position of the tml_export coroutine
    xguid,       \* the `guid` argument
    xdirectory,  \* the `directory` argument, "None" if not given
    xresp,       \* the export response: <<status, payload>>
    xdirs,       \* the directories that exist, as paths
    xfiles,      \* the files that exist: path -> text
    xresult,     \* the record returned: <<edoc, info, httpx_response>>
    xraised,     \* the exception leaving tml_export, "none" if there is none
    \* ---- authentication and the keepalive task of one RESTAPIClient ----
    heartbeat_task, \* self._heartbeat_task: the number of the task, 0 for None
    ktask,       \* keepalive task t -> where its coroutine stands
    kcancel,     \* tasks whose cancel() was called and is not yet delivered
    kauth,       \* caller -> the authentication call it is in
    authorization, \* self.headers["Authorization"]: the bearer token, 0 when absent
    klast,       \* what the client did last: a request built <<"sent", sender, path, credential>>,
                 \* a call ended <<"returned", caller, method, outcome>>,
                 \* an isactive request ended <<"ping", task, outcome, log record>>
    \* ---- one call of AnswerMiddleware.all against one server ----
    server_headers, \* the answers the server holds, in its order: each <<id, authorName>>
    server_flags,   \* whether the server sets isLastBatch on its last page
    chunksize,   \* the `chunksize` argument
    exclude_system_content, \* the `exclude_system_content` argument
    apc,         \* position of the call
    offset,      \* `offset`
    answers,     \* `answers`
    offsets,     \* the offsets of the requests made so far, in order
    data         \* `data` of the last response: <<headers, isLastBatch>>

gvars == <<orch, nUnits, compat_ts_version, calls, out_of_order, max_concurrent, gpc, unit, out, gsem, errors, aborting, cancelReq, idx, results, raisedExc>>
tvars == <<concurrency, free, pc, endpoint, hist, waits, rlog, events, delivered>>
cvars == <<cache_directory, store, creq, cpc, cattempt, cnet, cresp, previous>>
dvars == <<dpc, dstatus, dtype, dchild, dobjects, dreqs, dresult, draised>>
xvars == <<xpc, xguid, xdirectory, xresp, xdirs, xfiles, xresult, xraised>>
kvars == <<heartbeat_task, ktask, kcancel, kauth, authorization, klast>>
avars == <<server_headers, server_flags, chunksize, exclude_system_content, apc, offset, answers, offsets, data>>
wvars == <<dvars, xvars, kvars, avars>>
vars == <<gvars, tvars, cvars, wvars>>

(***************************************************************************)
(* Bounds of the model                                                     *)
(***************************************************************************)
MaxUnits == 3
MaxRecords == 2
MaxConcurrency == 2
MaxSlots == 2
MaxBody == 2
MaxContent == 2
MaxGuid == 4
MaxDeps == 3
MaxChildren == 2
MaxTasks == 3
MaxTokens == 2
MaxAnswers == 3
MaxChunk == 2
MaxRequests == 5

(***************************************************************************)
(* Exceptions                                                              *)
(***************************************************************************)
\* httpx.HTTPError and its subclasses named by the code: HTTPStatusError is what
\* raise_for_status() raises, ConnectError is a transport failure (RequestError).
CatchesRequestErrorOnly(e) == e = "ConnectError"
IsHTTPError(e) == e \in {"HTTPStatusError", "ConnectError"}

(***************************************************************************)
(* Orchestrators: fetch_all, fetch, permissions                            *)
(***************************************************************************)
Orchestrators == {"fetch_all", "fetch", "permissions"}

FETCH_CONCURRENCY_MAGIC_NUMBER == 15
PERMISSIONS_CONCURRENCY_MAGIC_NUMBER == 5

\* max_concurrent handed to BoundedTaskGroup by each orchestrator
OneSlotPerUnit(o, n) == n
MaxConcurrent(o, n) ==
    CASE o = "fetch_all" -> n
      [] o = "fetch" -> FETCH_CONCURRENCY_MAGIC_NUMBER
      [] o = "permissions" -> PERMISSIONS_CONCURRENCY_MAGIC_NUMBER

Units == 1..nUnits

\* the records a unit's call yields: record j of unit k is <<k, j>>
Body(k, n) == [j \in 1..n |-> <<k, j>>]

\* What the coroutine of a unit can return. fetch_all's unit is a paginated drain
\* and returns the drained list; the units of fetch and permissions return the
\* httpx.Response, whose status is checked only at classification.
\* The payload of a permissions response is one object, taken whole: it is
\* modelled as the MaxRecords permission records of the identifier.
UnitReturns(o, k) ==
    CASE o = "fetch_all" -> {<<"ok", Body(k, n)>> : n \in 0..MaxRecords}
      [] o = "permissions" -> {<<"ok", Body(k, MaxRecords)>>, <<"badstatus", <<>>>>}
      [] OTHER -> {<<"ok", Body(k, n)>> : n \in 0..MaxRecords} \cup {<<"badstatus", <<>>>>}

\* What the coroutine of a unit can raise: a drain that fails raises the
\* HTTPStatusError of its page; a single call raises what the transport raises.
UnitRaises(o) ==
    IF o = "fetch_all" THEN {"HTTPStatusError", "ConnectError"} ELSE {"ConnectError", "RetryError"}

TaskDone(k) == unit[k] \in {"done", "error", "cancelled"}

\* compat_ts_version: versions on both sides of the threshold, among them ones
\* that compare differently as strings and as versions
Threshold == <<10, 3, 0>>
Versions == {<<9, 12, 0>>, <<10, 2, 9>>, Threshold, <<10, 3, 1>>, <<10, 10, 0>>}
NoVersion == <<0, 0, 0>>

\* AwesomeVersion.__lt__: section by section, as numbers
VersionLess(v, w) ==
    \/ v[1] < w[1]
    \/ (v[1] = w[1] /\ v[2] < w[2])
    \/ (v[1] = w[1] /\ v[2] = w[2] /\ v[3] < w[3])

FIFTEEN_MINUTES == 60 * 15
CALLOSUM_DEFAULT_TIMEOUT_SECONDS == 60 * 5

\* the request of permissions for one identifier: below 10.3.0 the V1 call
\* with permission_options["id"] = [guid] and no timeout among its options, so
\* that the client's default applies; from 10.3.0 on the V2 call with
\* permission_options["metadata"] = [{"type": ..., "identifier": guid}] and
\* permission_options["timeout"] = FIFTEEN_MINUTES
PermissionsCall(version, guid) ==
    IF VersionLess(version, Threshold)
    THEN <<"v1_security_metadata_permissions", <<"id", <<guid>>>>, CALLOSUM_DEFAULT_TIMEOUT_SECONDS>>
    ELSE <<"security_metadata_permissions", <<"metadata", <<<<"type", guid>>>>>>, FIFTEEN_MINUTES>>

\* the client call of unit k, whose identifier is k
Call(o, version, k) ==
    CASE o = "permissions" -> PermissionsCall(version, k)
      [] o = "fetch" -> <<"metadata_search", <<"metadata", <<<<"type", k>>>>>>, CALLOSUM_DEFAULT_TIMEOUT_SECONDS>>
      [] OTHER -> <<"paginator", <<"metadata", <<<<"type", k>>>>>>, CALLOSUM_DEFAULT_TIMEOUT_SECONDS>>

NoCall == <<"none", <<>>, 0>>

\* BoundedTaskGroup.__init__: asyncio.Semaphore(value=max_concurrent)
SemaphoreOffByOne(value) == value + 1
Semaphore(value) == value

\* `async with utils.BoundedTaskGroup(max_concurrent=...) as g:` entered, the
\* list of tasks still empty
GroupStart ==
    /\ gpc = "submit"
    /\ unit = [k \in 1..nUnits |-> "unsubmitted"]
    /\ out = [k \in 1..nUnits |-> <<"none", <<>>>>]
    /\ calls = [k \in 1..nUnits |-> NoCall]
    /\ out_of_order = FALSE
    /\ gsem = Semaphore(max_concurrent)
    /\ errors = {}
    /\ aborting = FALSE
    /\ cancelReq = {}
    /\ idx = 1
    /\ results = <<>>
    /\ raisedExc = "none"

GInit ==
    /\ orch \in Orchestrators
    /\ nUnits \in 1..MaxUnits
    /\ compat_ts_version \in (IF orch = "permissions" THEN Versions ELSE {NoVersion})
    /\ max_concurrent = MaxConcurrent(orch, nUnits)
    /\ GroupStart

\* a BoundedTaskGroup used on its own: any positive max_concurrent, any batch
TaskGroupInit ==
    /\ orch = "task_group"
    /\ nUnits \in 1..MaxUnits
    /\ compat_ts_version = NoVersion
    /\ max_concurrent \in 1..MaxSlots
    /\ GroupStart

\* g.create_task(coro, name=...): the task exists, its wrapper has not run yet.
\* The body of the `async with` has no await, so no task runs before __aexit__.
CreateTask(k) ==
    /\ gpc = "submit"
    /\ k \in Units
    /\ unit[k] = "unsubmitted"
    /\ \A j \in 1..(k - 1) : unit[j] # "unsubmitted"
    /\ unit' = [unit EXCEPT ![k] = "waiting"]
    /\ calls' = [calls EXCEPT ![k] = Call(orch, compat_ts_version, k)]
    /\ UNCHANGED out_of_order
    /\ UNCHANGED <<orch, nUnits, compat_ts_version, max_concurrent, gpc, out, gsem, errors, aborting, cancelReq, idx, results, raisedExc>>
    /\ UNCHANGED <<tvars, cvars, wvars>>

\* leaving the body of the `async with`: TaskGroup.__aexit__ awaits the tasks
EnterAexit ==
    /\ gpc = "submit"
    /\ \A k \in Units : unit[k] # "unsubmitted"
    /\ gpc' = "await"
    /\ UNCHANGED <<calls, out_of_order>>
    /\ UNCHANGED <<orch, nUnits, compat_ts_version, max_concurrent, unit, out, gsem, errors, aborting, cancelReq, idx, results, raisedExc>>
    /\ UNCHANGED <<tvars, cvars, wvars>>

\* with_backpressure: `async with self._semaphore` entered
UnitAcquire(k) ==
    /\ gpc = "await"
    /\ k \in Units
    /\ unit[k] = "waiting"
    /\ k \notin cancelReq
    /\ gsem > 0
    /\ gsem' = gsem - 1
    /\ unit' = [unit EXCEPT ![k] = "running"]
    /\ UNCHANGED <<calls, out_of_order>>
    /\ UNCHANGED <<orch, nUnits, compat_ts_version, max_concurrent, gpc, out, errors, aborting, cancelReq, idx, results, raisedExc>>
    /\ UNCHANGED <<tvars, cvars, wvars>>

\* with_backpressure: `return await coro` returns, the semaphore is released
UnitReturn(k) ==
    /\ k \in Units
    /\ unit[k] = "running"
    /\ k \notin cancelReq
    /\ \E o \in UnitReturns(orch, k) : out' = [out EXCEPT ![k] = o]
    /\ unit' = [unit EXCEPT ![k] = "done"]
    /\ gsem' = gsem + 1
    /\ out_of_order' = (out_of_order \/ \E j \in 1..(k - 1) : ~TaskDone(j))
    /\ UNCHANGED calls
    /\ UNCHANGED <<orch, nUnits, compat_ts_version, max_concurrent, gpc, errors, aborting, cancelReq, idx, results, raisedExc>>
    /\ UNCHANGED <<tvars, cvars, wvars>>

\* with_backpressure: `await coro` raises, the semaphore is released
UnitRaise(k) ==
    /\ k \in Units
    /\ unit[k] = "running"
    /\ k \notin cancelReq
    /\ \E e \in UnitRaises(orch) : out' = [out EXCEPT ![k] = <<"raise", e>>]
    /\ unit' = [unit EXCEPT ![k] = "error"]
    /\ gsem' = gsem + 1
    /\ out_of_order' = (out_of_order \/ \E j \in 1..(k - 1) : ~TaskDone(j))
    /\ UNCHANGED calls
    /\ UNCHANGED <<orch, nUnits, compat_ts_version, max_concurrent, gpc, errors, aborting, cancelReq, idx, results, raisedExc>>
    /\ UNCHANGED <<tvars, cvars, wvars>>

\* The tasks TaskGroup._abort() cancels: every task of the group that is not done.
AbortCancels(k) == {j \in Units : ~TaskDone(j)}

\* asyncio.TaskGroup._on_task_done for a task that ended with an exception:
\* the error is recorded and, the first time, the group aborts.
OnTaskDone(k) ==
    /\ k \in Units
    /\ unit[k] = "error"
    /\ k \notin errors
    /\ errors' = errors \cup {k}
    /\ aborting' = TRUE
    /\ cancelReq' = IF aborting THEN cancelReq ELSE cancelReq \cup AbortCancels(k)
    /\ UNCHANGED <<calls, out_of_order>>
    /\ UNCHANGED <<orch, nUnits, compat_ts_version, max_concurrent, gpc, unit, out, gsem, idx, results, raisedExc>>
    /\ UNCHANGED <<tvars, cvars, wvars>>

\* CancelledError is thrown into a cancelled task at its next step: a task waiting
\* for the semaphore ends without a slot, a running one gives its slot back.
DeliverCancel(k) ==
    /\ k \in cancelReq
    /\ unit[k] \in {"waiting", "running"}
    /\ gsem' = IF unit[k] = "running" THEN gsem + 1 ELSE gsem
    /\ unit' = [unit EXCEPT ![k] = "cancelled"]
    /\ out' = [out EXCEPT ![k] = <<"raise", "CancelledError">>]
    /\ cancelReq' = cancelReq \ {k}
    /\ out_of_order' = (out_of_order \/ \E j \in 1..(k - 1) : ~TaskDone(j))
    /\ UNCHANGED calls
    /\ UNCHANGED <<orch, nUnits, compat_ts_version, max_concurrent, gpc, errors, aborting, idx, results, raisedExc>>
    /\ UNCHANGED <<tvars, cvars, wvars>>

\* TaskGroup.__aexit__ returns once every task is done: with recorded errors it
\* raises an ExceptionGroup out of the `async with`, which no orchestrator catches.
GroupExit ==
    /\ gpc = "await"
    /\ \A k \in Units : TaskDone(k)
    /\ \A k \in Units : unit[k] = "error" => k \in errors
    /\ IF errors # {}
       THEN gpc' = "raised" /\ raisedExc' = "ExceptionGroup"
       ELSE gpc' = "classify" /\ raisedExc' = raisedExc
    /\ UNCHANGED <<calls, out_of_order>>
    /\ UNCHANGED <<orch, nUnits, compat_ts_version, max_concurrent, unit, out, gsem, errors, aborting, cancelReq, idx, results>>
    /\ UNCHANGED <<tvars, cvars, wvars>>

\* The exception one pass of the classification loop meets, "none" if none:
\* task.result() re-raises the task's exception; fetch and permissions then call
\* r.raise_for_status().
ClassifyException(o, t) ==
    CASE t[1] = "raise" -> t[2]
      [] t[1] = "badstatus" /\ o # "fetch_all" -> "HTTPStatusError"
      [] OTHER -> "none"

\* results.extend(d) in fetch_all and fetch, results.append(d) in permissions
AccumulateInFront(o, rs, d) == IF o = "permissions" THEN <<d>> \o rs ELSE d \o rs
Accumulate(o, rs, d) == IF o = "permissions" THEN Append(rs, d) ELSE rs \o d

\* one pass of `for task in tasks:` with its try / except httpx.HTTPError / continue
Classify ==
    /\ gpc = "classify"
    /\ idx <= nUnits
    /\ LET e == ClassifyException(orch, out[idx])
       IN  IF e = "none"
           THEN /\ results' = Accumulate(orch, results, out[idx][2])
                /\ idx' = idx + 1
                /\ UNCHANGED <<gpc, raisedExc>>
           ELSE IF IsHTTPError(e)
           THEN /\ idx' = idx + 1
                /\ UNCHANGED <<gpc, results, raisedExc>>
           ELSE /\ gpc' = "raised"
                /\ raisedExc' = e
                /\ UNCHANGED <<idx, results>>
    /\ UNCHANGED <<calls, out_of_order>>
    /\ UNCHANGED <<orch, nUnits, compat_ts_version, max_concurrent, unit, out, gsem, errors, aborting, cancelReq>>
    /\ UNCHANGED <<tvars, cvars, wvars>>

\* `return results`
Return ==
    /\ gpc = "classify"
    /\ idx > nUnits
    /\ gpc' = "returned"
    /\ UNCHANGED <<calls, out_of_order>>
    /\ UNCHANGED <<orch, nUnits, compat_ts_version, max_concurrent, unit, out, gsem, errors, aborting, cancelReq, idx, results, raisedExc>>
    /\ UNCHANGED <<tvars, cvars, wvars>>

GNext ==
    \/ \E k \in 1..MaxUnits : CreateTask(k)
    \/ EnterAexit
    \/ \E k \in 1..MaxUnits : UnitAcquire(k)
    \/ \E k \in 1..MaxUnits : UnitReturn(k)
    \/ \E k \in 1..MaxUnits : UnitRaise(k)
    \/ \E k \in 1..MaxUnits : OnTaskDone(k)
    \/ \E k \in 1..MaxUnits : DeliverCancel(k)
    \/ GroupExit
    \/ Classify
    \/ Return

\* the steps of the task group itself, from create_task to the end of __aexit__
TaskGroupNext ==
    \/ \E k \in 1..MaxUnits : CreateTask(k)
    \/ EnterAexit
    \/ \E k \in 1..MaxUnits : UnitAcquire(k)
    \/ \E k \in 1..MaxUnits : UnitReturn(k)
    \/ \E k \in 1..MaxUnits : UnitRaise(k)
    \/ \E k \in 1..MaxUnits : OnTaskDone(k)
    \/ \E k \in 1..MaxUnits : DeliverCancel(k)
    \/ GroupExit

\* permissions over one identifier more than its cap of concurrent calls
PermissionUnits == PERMISSIONS_CONCURRENCY_MAGIC_NUMBER + 1

PermissionsInit ==
    /\ orch = "permissions"
    /\ nUnits = PermissionUnits
    /\ compat_ts_version = Threshold
    /\ max_concurrent = MaxConcurrent(orch, nUnits)
    /\ GroupStart

PermissionsNext ==
    \/ \E k \in 1..PermissionUnits : CreateTask(k)
    \/ EnterAexit
    \/ \E k \in 1..PermissionUnits : UnitAcquire(k)
    \/ \E k \in 1..PermissionUnits : UnitReturn(k)
    \/ \E k \in 1..PermissionUnits : UnitRaise(k)
    \/ \E k \in 1..PermissionUnits : OnTaskDone(k)
    \/ \E k \in 1..PermissionUnits : DeliverCancel(k)
    \/ GroupExit
    \/ Classify
    \/ Return

(***************************************************************************)
(* Retry policy: the tenacity.AsyncRetrying of RESTAPIClient.__init__      *)
(***************************************************************************)
\* How one attempt can end: a successful response, a response with a generic
\* 4xx/5xx status, a response carrying the server-overloaded signal, a transient
\* network/connection error (httpx.RequestError), any other exception.
Outcomes == {"ok", "error_status", "overloaded", "RequestError", "OtherError"}

IsException(o) == o \in {"RequestError", "OtherError"}

ImportEndpoint == "metadata_tml_import"

\* _retry.request_errors_unless_importing_tml
request_errors_unless_importing_tml(o, ep) == o = "RequestError" /\ ep # ImportEndpoint

\* _retry.if_server_is_under_pressure
if_server_is_under_pressure(o) == o = "overloaded"

\* retry=(retry_if_exception(...) | retry_if_result(...)): retry_if_exception looks
\* only at an attempt that raised, retry_if_result only at one that returned.
RetryOnAnyRequestError(o, ep) ==
    \/ (IsException(o) /\ o = "RequestError")
    \/ (~IsException(o) /\ if_server_is_under_pressure(o))
RetryOnAnyFailure(o, ep) == o # "ok"
Retry(o, ep) ==
    \/ (IsException(o) /\ request_errors_unless_importing_tml(o, ep))
    \/ (~IsException(o) /\ if_server_is_under_pressure(o))

exp_base == 4
max_attempt_number == 3

\* wait=tenacity.wait_exponential(exp_base=4): multiplier 1, min 0, no reachable max
WaitByRemainingAttempts(n) == exp_base ^ (max_attempt_number - n)
wait_exponential(n) == exp_base ^ (n - 1)

\* stop=tenacity.stop_after_attempt(max_attempt_number=3)
StopAfterFour(n) == n >= max_attempt_number + 1
stop_after_attempt(n) == n >= max_attempt_number

\* What tenacity hands the caller when the attempts are exhausted, reraise=True:
\* RetryError.reraise() raises the last attempt's exception if it raised one,
\* and the RetryError itself when the last attempt returned a result.
Exhausted(o, n) == IF IsException(o) THEN <<"raise", o, n>> ELSE <<"raise", "RetryError", n>>

\* What tenacity hands the caller when the attempt is not to be retried:
\* fut.result(), the returned response or the raised exception.
Terminal(o, n) == IF IsException(o) THEN <<"raise", o, n>> ELSE <<"return", o, n>>

(***************************************************************************)
(* Transport: admission gate around the retry loop                         *)
(***************************************************************************)
\* The callers sharing one client instance and the endpoints they call.
Callers == {"workflow", "direct", "keepalive"}

EndpointsOf(c) ==
    CASE c = "workflow" -> {"metadata_search"}
      [] c = "direct" -> {"metadata_search", ImportEndpoint}
      [] c = "keepalive" -> {"session_isactive"}

\* max_concurrent_requests=concurrency
OneSlotTooMany(n) == n + 1
MaxConcurrentRequests(n) == n

NoResult == <<"none", "none", 0>>

InGate == {"attempting", "sleeping"}
InFlight == Cardinality({c \in Callers : pc[c] \in InGate})

TInit ==
    /\ concurrency \in 1..MaxConcurrency
    /\ free = MaxConcurrentRequests(concurrency)
    /\ pc = [c \in Callers |-> "idle"]
    /\ endpoint = [c \in Callers |-> "none"]
    /\ hist = [c \in Callers |-> <<>>]
    /\ waits = [c \in Callers |-> <<>>]
    /\ rlog = [c \in Callers |-> <<>>]
    /\ events = [c \in Callers |-> <<>>]
    /\ delivered = [c \in Callers |-> NoResult]

\* a caller issues a request: it arrives at the admission gate
Issue(c) ==
    /\ pc[c] = "idle"
    /\ \E ep \in EndpointsOf(c) : endpoint' = [endpoint EXCEPT ![c] = ep]
    /\ pc' = [pc EXCEPT ![c] = "waiting"]
    /\ UNCHANGED <<concurrency, free, hist, waits, rlog, events, delivered>>
    /\ UNCHANGED <<gvars, cvars, wvars>>

\* acquire(): the caller is suspended until a slot is free
Acquire(c) ==
    /\ pc[c] = "waiting"
    /\ free > 0
    /\ free' = free - 1
    /\ pc' = [pc EXCEPT ![c] = "attempting"]
    /\ events' = [events EXCEPT ![c] = Append(@, <<"start", 1>>)]
    /\ UNCHANGED <<concurrency, endpoint, hist, waits, rlog, delivered>>
    /\ UNCHANGED <<gvars, cvars, wvars>>

\* release() when the guarded operation is left
ReleaseNothing(f) == f
Release(f) == f + 1

\* What the retry loop does once attempt n has ended: nothing more when the
\* attempt is not retried; before a retry, before_sleep=_retry.log_on_any_retry
\* runs and then the backoff sleep begins.
LogAfterEveryAttempt(n, retried) ==
    IF retried THEN <<<<"end", n>>, <<"log", n>>, <<"sleep", n>>>> ELSE <<<<"end", n>>, <<"log", n>>>>
AttemptEvents(n, retried) ==
    IF retried THEN <<<<"end", n>>, <<"log", n>>, <<"sleep", n>>>> ELSE <<<<"end", n>>>>

\* One attempt ends with outcome o and tenacity decides: hand the outcome to the
\* caller, give up, or log, sleep and try again.
Attempt(c) ==
    /\ pc[c] = "attempting"
    /\ \E o \in Outcomes :
         LET n == Len(hist[c]) + 1
         IN  /\ hist' = [hist EXCEPT ![c] = Append(@, o)]
             /\ events' = [events EXCEPT ![c] =
                    @ \o AttemptEvents(n, Retry(o, endpoint[c]) /\ ~stop_after_attempt(n))]
             /\ IF ~Retry(o, endpoint[c])
                THEN /\ delivered' = [delivered EXCEPT ![c] = Terminal(o, n)]
                     /\ pc' = [pc EXCEPT ![c] = "done"]
                     /\ free' = Release(free)
                     /\ UNCHANGED <<waits, rlog>>
                ELSE IF stop_after_attempt(n)
                THEN /\ delivered' = [delivered EXCEPT ![c] = Exhausted(o, n)]
                     /\ pc' = [pc EXCEPT ![c] = "done"]
                     /\ free' = Release(free)
                     /\ UNCHANGED <<waits, rlog>>
                ELSE /\ rlog' = [rlog EXCEPT ![c] = Append(@, n)]
                     /\ waits' = [waits EXCEPT ![c] = Append(@, wait_exponential(n))]
                     /\ pc' = [pc EXCEPT ![c] = "sleeping"]
                     /\ UNCHANGED <<delivered, free>>
    /\ UNCHANGED <<concurrency, endpoint>>
    /\ UNCHANGED <<gvars, cvars, wvars>>

\* the backoff sleep ends and the next attempt starts
Wake(c) ==
    /\ pc[c] = "sleeping"
    /\ pc' = [pc EXCEPT ![c] = "attempting"]
    /\ events' = [events EXCEPT ![c] = Append(@, <<"start", Len(hist[c]) + 1>>)]
    /\ UNCHANGED <<concurrency, free, endpoint, hist, waits, rlog, delivered>>
    /\ UNCHANGED <<gvars, cvars, wvars>>

\* the task awaiting the request is cancelled at a suspension point: waiting for
\* a slot, in network I/O, or in the backoff sleep
Cancel(c) ==
    /\ pc[c] \in {"waiting", "attempting", "sleeping"}
    /\ free' = IF pc[c] \in InGate THEN Release(free) ELSE free
    /\ delivered' = [delivered EXCEPT ![c] = <<"raise", "CancelledError", Len(hist[c])>>]
    /\ pc' = [pc EXCEPT ![c] = "done"]
    /\ UNCHANGED <<concurrency, endpoint, hist, waits, rlog, events>>
    /\ UNCHANGED <<gvars, cvars, wvars>>

\* the caller has consumed the outcome: the request and its attempts are gone
Finish(c) ==
    /\ pc[c] = "done"
    /\ pc' = [pc EXCEPT ![c] = "idle"]
    /\ endpoint' = [endpoint EXCEPT ![c] = "none"]
    /\ hist' = [hist EXCEPT ![c] = <<>>]
    /\ waits' = [waits EXCEPT ![c] = <<>>]
    /\ rlog' = [rlog EXCEPT ![c] = <<>>]
    /\ events' = [events EXCEPT ![c] = <<>>]
    /\ delivered' = [delivered EXCEPT ![c] = NoResult]
    /\ UNCHANGED <<concurrency, free>>
    /\ UNCHANGED <<gvars, cvars, wvars>>

TNext ==
    \/ \E c \in Callers : Issue(c)
    \/ \E c \in Callers : Acquire(c)
    \/ \E c \in Callers : Attempt(c)
    \/ \E c \in Callers : Wake(c)
    \/ \E c \in Callers : Cancel(c)
    \/ \E c \in Callers : Finish(c)

(***************************************************************************)
(* Cache Policy: lookup / store around the network call of one attempt     *)
(***************************************************************************)
\* The endpoints carrying @_transport.CachePolicy.mark_cacheable
mark_cacheable ==
    {"system_info", "metadata_search", "metadata_permissions", "metadata_tml_export",
     "metadata_tml_import", "connection_search", "users_search", "groups_search",
     "schedules_search"}

\* The endpoints the session calls: a tagged search, the tagged import, an
\* untagged write.
CacheEndpoints == {"metadata_search", "metadata_tml_import", "users_create"}

\* the url each endpoint posts to
Path(ep) ==
    CASE ep = "metadata_search" -> "api/rest/2.0/metadata/search"
      [] ep = "metadata_tml_import" -> "api/rest/2.0/metadata/tml/import"
      [] ep = "users_create" -> "api/rest/2.0/users/create"

\* the bodies a request to the endpoint can carry: the search names one of
\* several objects
Bodies(ep) == IF ep = "metadata_search" THEN 1..MaxBody ELSE {1}

\* Request Fingerprint: method, path, query parameters and body; headers, and
\* with them the cache-bust marker, are not part of it. No endpoint here has
\* query parameters.
Fingerprint(ep, body, bust) == <<"POST", Path(ep), body>>

\* cache_policy=_transport.CachePolicy(directory=cache_directory) if cache_directory else None
AlwaysCachePolicy(directory) == TRUE
cache_policy(directory) == directory # "None"

\* is_cacheable(request): the endpoint carries the allow-list tag
NothingCacheable(ep) == FALSE
is_cacheable(ep) == ep \in mark_cacheable

\* the per-request override header forces a miss
NeverForced(bust) == FALSE
ForcedMiss(bust) == bust

\* lookup(fingerprint) -> entry | none, 0 standing for none; a disabled cache
\* always misses
lookup(key, bust) ==
    IF ~cache_policy(cache_directory) \/ ForcedMiss(bust) \/ key \notin DOMAIN store
    THEN 0
    ELSE store[key]

\* only a successful response is stored
StoreAnyResponse(o) == ~IsException(o)
ShouldStore(o) == o = "ok"

\* store(fingerprint, response): creates the entry or overwrites it
StoreIfAbsent(st, key, v) ==
    IF key \in DOMAIN st THEN st ELSE [k \in DOMAIN st \cup {key} |-> IF k = key THEN v ELSE st[k]]
Store(st, key, v) == [k \in DOMAIN st \cup {key} |-> IF k = key THEN v ELSE st[k]]

\* the response synthesized from an entry, marked with CACHE_FETCHED_HEADER
SynthesizeUnmarked(entry, n) == <<"cache", <<"return", "ok", n>>, entry, FALSE>>
Synthesize(entry, n) == <<"cache", <<"return", "ok", n>>, entry, TRUE>>

\* the content the server sends with outcome o: only a successful response has one
Contents(o) == IF o = "ok" THEN 1..MaxContent ELSE {0}

NoRequest == <<"none", 0, FALSE>>
NoResponse == <<"none", NoResult, 0, FALSE>>
NoPrevious == <<"none", 0, FALSE, 0>>

\* the caller received a successful response
Successful(r) == r[2][1] = "return" /\ r[2][2] = "ok"

CInit ==
    /\ cache_directory \in {"None", "directory"}
    /\ store = [k \in {} |-> 0]
    /\ creq = NoRequest
    /\ cpc = "idle"
    /\ cattempt = 0
    /\ cnet = 0
    /\ cresp = NoResponse
    /\ previous = NoPrevious

\* a request method of the client is called; the single caller always finds
\* the admission gate open
CIssue ==
    /\ cpc = "idle"
    /\ \E ep \in CacheEndpoints : \E body \in Bodies(ep) : \E bust \in BOOLEAN :
           creq' = <<ep, body, bust>>
    /\ cpc' = "attempting"
    /\ cattempt' = 1
    /\ cnet' = 0
    /\ UNCHANGED <<cache_directory, store, cresp, previous>>
    /\ UNCHANGED <<gvars, tvars, wvars>>

\* One attempt of the retry loop: the cache is looked up; on a hit the response
\* is synthesized, on a miss the request goes to the network, a cacheable
\* successful response is stored, and tenacity decides as in Attempt.
CAttempt ==
    /\ cpc = "attempting"
    /\ LET ep == creq[1]
           n == cattempt
           key == Fingerprint(creq[1], creq[2], creq[3])
           entry == lookup(key, creq[3])
       IN  IF entry # 0
           THEN /\ cresp' = Synthesize(entry, n)
                /\ cpc' = "done"
                /\ UNCHANGED <<store, cattempt, cnet>>
           ELSE \E o \in Outcomes : \E v \in Contents(o) :
                /\ cnet' = cnet + 1
                /\ store' = IF cache_policy(cache_directory) /\ is_cacheable(ep) /\ ShouldStore(o)
                            THEN Store(store, key, v)
                            ELSE store
                /\ IF ~Retry(o, ep)
                   THEN /\ cresp' = <<"network", Terminal(o, n), v, FALSE>>
                        /\ cpc' = "done"
                        /\ UNCHANGED cattempt
                   ELSE IF stop_after_attempt(n)
                   THEN /\ cresp' = <<"network", Exhausted(o, n), v, FALSE>>
                        /\ cpc' = "done"
                        /\ UNCHANGED cattempt
                   ELSE /\ cpc' = "sleeping"
                        /\ UNCHANGED <<cresp, cattempt>>
    /\ UNCHANGED <<cache_directory, creq, previous>>
    /\ UNCHANGED <<gvars, tvars, wvars>>

\* the backoff sleep ends and the next attempt starts
CWake ==
    /\ cpc = "sleeping"
    /\ cpc' = "attempting"
    /\ cattempt' = cattempt + 1
    /\ UNCHANGED <<cache_directory, store, creq, cnet, cresp, previous>>
    /\ UNCHANGED <<gvars, tvars, wvars>>

\* the caller has its response or exception and goes on to its next request
CFinish ==
    /\ cpc = "done"
    /\ previous' = <<creq[1], creq[2], creq[3], IF Successful(cresp) THEN cresp[3] ELSE 0>>
    /\ creq' = NoRequest
    /\ cpc' = "idle"
    /\ cattempt' = 0
    /\ cnet' = 0
    /\ cresp' = NoResponse
    /\ UNCHANGED <<cache_directory, store>>
    /\ UNCHANGED <<gvars, tvars, wvars>>

CNext ==
    \/ CIssue
    \/ CAttempt
    \/ CWake
    \/ CFinish

(***************************************************************************)
(* dependents: expansion of one object, with per-table fan-out for a       *)
(* connection                                                              *)
(***************************************************************************)
\* The guids of the objects the server knows besides the root, whose guid is 0.
\* The tables of a connection are named 1..n: the code never looks inside a guid.
RootGuid == 0
Guids == 1..MaxGuid

\* sequences over S of length at most k
SeqsUpTo(S, k) == UNION {[1..m -> S] : m \in 0..k}

\* r.raise_for_status()
NeverRaises(status) == FALSE
raise_for_status(status) == status = "badstatus"

\* if _["metadata_type"] == "CONNECTION":
IsContainer(type) == type = "CONNECTION"

\* track_top_level_info, True in the CONNECTION branch and False in the other
NeverTrack(type) == FALSE
AlwaysTrack(type) == TRUE
track_top_level_info(type) == type = "CONNECTION"

\* `... in seen`
NeverSeen(g, seen) == FALSE
AlreadySeen(g, seen) == g \in seen

\* seen.add(metadata_object["metadata_id"])
SeenUnchanged(seen, g) == seen
SeenAdd(seen, g) == seen \cup {g}

\* The three nested loops over metadata_object["dependent_objects"]: deps is the
\* sequence of dependents in the order the loops visit them. Gives <<all, seen>>.
RECURSIVE EmitDependents(_, _, _)
EmitDependents(deps, all, seen) ==
    IF deps = <<>> THEN <<all, seen>>
    ELSE IF AlreadySeen(Head(deps), seen)
         THEN EmitDependents(Tail(deps), all, seen)
         ELSE EmitDependents(Tail(deps), Append(all, <<Head(deps), "dependent">>), seen \cup {Head(deps)})

\* `for metadata_object in d:` with the top-level record emitted when tracked
RECURSIVE EmitObjects(_, _, _, _)
EmitObjects(d, track, all, seen) ==
    IF d = <<>> THEN all
    ELSE LET o == Head(d)
             top == track /\ ~AlreadySeen(o[1], seen)
             all1 == IF top THEN Append(all, <<o[1], "top_level">>) ELSE all
             seen1 == IF top THEN SeenAdd(seen, o[1]) ELSE seen
             r == EmitDependents(o[2], all1, seen1)
         IN  EmitObjects(Tail(d), track, r[1], r[2])

\* What metadata/search can answer for the n tables of a connection: one record
\* per table, with at most MaxDeps dependents in all; no object is its own
\* dependent. cut[i] is where the dependents of table i end in the stream.
ChildRecords(n) ==
    {[i \in 1..n |-> <<i, SubSeq(s, (IF i = 1 THEN 0 ELSE cut[i - 1]) + 1, cut[i])>>] :
        <<s, cut>> \in {sc \in SeqsUpTo(Guids, MaxDeps) \X [1..n -> 0..MaxDeps] :
                          /\ \A i \in 1..n : sc[2][i] <= Len(sc[1])
                          /\ \A i \in 1..(n - 1) : sc[2][i] <= sc[2][i + 1]
                          /\ n > 0 => sc[2][n] = Len(sc[1])
                          /\ \A i \in 1..n : \A j \in 1..Len(sc[1]) :
                                ((IF i = 1 THEN 0 ELSE sc[2][i - 1]) < j /\ j <= sc[2][i]) => sc[1][j] # i}}

\* What metadata/search can answer for a root that is not a connection
RootRecords == {<< <<RootGuid, s>> >> : s \in SeqsUpTo(Guids, MaxDeps)}

DInit ==
    /\ dpc = "start"
    /\ dstatus = "none"
    /\ dtype = "none"
    /\ dchild = <<>>
    /\ dobjects = <<>>
    /\ dreqs = 0
    /\ dresult = <<>>
    /\ draised = "none"

\* The search of the root, r.raise_for_status(), the first record and the branch
\* on its type: a connection gets one coroutine per logical table, all started
\* by asyncio.gather; any other root is expanded as it is.
DRootSearch ==
    /\ dpc = "start"
    /\ \E status \in {"ok", "badstatus", "empty", "raise"} :
       \E type \in {"CONNECTION", "LOGICAL_TABLE"} :
       \E n \in 0..MaxChildren :
       \E root \in RootRecords :
        /\ dstatus' = status
        /\ IF status = "raise"
             THEN /\ dpc' = "raised" /\ draised' = "ConnectError"
                  /\ dreqs' = 1
                  /\ UNCHANGED <<dtype, dchild, dobjects>>
             ELSE IF raise_for_status(status)
             THEN /\ dpc' = "raised" /\ draised' = "HTTPStatusError"
                  /\ dreqs' = 1
                  /\ UNCHANGED <<dtype, dchild, dobjects>>
             ELSE IF status = "empty"
             THEN /\ dpc' = "raised" /\ draised' = "KeyError"
                  /\ dreqs' = 1
                  /\ UNCHANGED <<dtype, dchild, dobjects>>
             ELSE IF IsContainer(type)
             THEN /\ dpc' = "gather"
                  /\ dtype' = type
                  /\ dchild' = [i \in 1..n |-> "pending"]
                  /\ dreqs' = 1 + n
                  /\ UNCHANGED <<dobjects, draised>>
             ELSE /\ dpc' = "collect"
                  /\ dtype' = type
                  /\ dobjects' = root
                  /\ dreqs' = 1
                  /\ UNCHANGED <<dchild, draised>>
    /\ UNCHANGED dresult
    /\ UNCHANGED <<gvars, tvars, cvars, xvars, kvars, avars>>

\* the metadata_search of table i ends: a response, of whatever status, or an
\* exception of the transport
DChildRespond(i) ==
    /\ dpc \in {"gather", "raised"}
    /\ i \in DOMAIN dchild
    /\ dchild[i] = "pending"
    /\ \E o \in {"ok", "badstatus", "raise"} : dchild' = [dchild EXCEPT ![i] = o]
    /\ UNCHANGED <<dpc, dstatus, dtype, dobjects, dreqs, dresult, draised>>
    /\ UNCHANGED <<gvars, tvars, cvars, xvars, kvars, avars>>

\* asyncio.gather raises the first exception of its awaitables to dependents
DGatherRaise ==
    /\ dpc = "gather"
    /\ \E i \in DOMAIN dchild : dchild[i] = "raise"
    /\ dpc' = "raised"
    /\ draised' = "ConnectError"
    /\ UNCHANGED <<dstatus, dtype, dchild, dobjects, dreqs, dresult>>
    /\ UNCHANGED <<gvars, tvars, cvars, xvars, kvars, avars>>

\* asyncio.gather returns the responses in the order of the tables and their
\* bodies are chained; no status is checked, so the body of a failed response
\* is iterated as if it were a list of records and the loop raises on it.
DGatherReturn ==
    /\ dpc = "gather"
    /\ \A i \in DOMAIN dchild : dchild[i] \in {"ok", "badstatus"}
    /\ IF \E i \in DOMAIN dchild : dchild[i] = "badstatus"
       THEN /\ dpc' = "raised"
            /\ draised' = "TypeError"
            /\ UNCHANGED dobjects
       ELSE /\ dpc' = "collect"
            /\ dobjects' \in ChildRecords(Len(dchild))
            /\ UNCHANGED draised
    /\ UNCHANGED <<dstatus, dtype, dchild, dreqs, dresult>>
    /\ UNCHANGED <<gvars, tvars, cvars, xvars, kvars, avars>>

\* the loop over d and `return all_dependents`
DCollect ==
    /\ dpc = "collect"
    /\ dresult' = EmitObjects(dobjects, track_top_level_info(dtype), <<>>, {})
    /\ dpc' = "returned"
    /\ UNCHANGED <<dstatus, dtype, dchild, dobjects, dreqs, draised>>
    /\ UNCHANGED <<gvars, tvars, cvars, xvars, kvars, avars>>

DNext ==
    \/ DRootSearch
    \/ \E i \in 1..MaxChildren : DChildRespond(i)
    \/ DGatherRaise
    \/ DGatherReturn
    \/ DCollect

(***************************************************************************)
(* tml_export: one export call, classified, optionally written to disk     *)
(***************************************************************************)
TmlTypes == {"LIVEBOARD", "ANSWER"}

\* d["info"] of the first record of the export response
Infos == [id : Guids, type : TmlTypes, status_code : {"OK", "ERROR"}]

\* What r.json() can be: an empty list, a list whose first record is
\* <<edoc, info>> (no edoc, written 0, when the export reports ERROR), or no
\* JSON at all.
Payloads ==
    {<<"empty">>, <<"not_json">>}
    \cup {<<"record", e, i>> : e \in 1..MaxContent, i \in {j \in Infos : j.status_code = "OK"}}
    \cup {<<"record", 0, i>> : i \in {j \in Infos : j.status_code = "ERROR"}}

\* if d["info"]["status"]["status_code"] == "ERROR": raise ValueError(d["info"])
NoErrorStatus(info) == FALSE
IsErrorStatus(info) == info.status_code = "ERROR"

\* The exception the try block ends with, "none" if it ends normally:
\* raise_for_status, next(iter(r.json())) and the status check, in this order.
TryRaises(status, payload) ==
    IF raise_for_status(status) THEN "HTTPStatusError"
    ELSE IF payload[1] = "not_json" THEN "JSONDecodeError"
    ELSE IF payload[1] = "empty" THEN "StopIteration"
    ELSE IF IsErrorStatus(payload[3]) THEN "ValueError"
    ELSE "none"

\* except (httpx.HTTPStatusError, StopIteration):
CatchesStatusErrorOnly(e) == e = "HTTPStatusError"
CatchesDegraded(e) == e \in {"HTTPStatusError", "StopIteration"}

\* except ValueError as e: json.JSONDecodeError is a ValueError
CatchesValueError(e) == e \in {"ValueError", "JSONDecodeError"}

\* {"edoc": None, "info": {"id": guid}, "httpx_response": r.text}
Degraded(guid) == <<0, <<"id", guid>>, "r.text">>

\* {"edoc": None, "info": e.args[0]}
Errored(e, payload) == <<0, IF e = "ValueError" THEN payload[3] ELSE <<"message">>, "absent">>

\* if directory is not None:
NeverPersist(directory) == FALSE
ShouldPersist(directory) == directory # "None"

\* directory.joinpath(i["type"]) and directory.joinpath(f"{i['type']}/{i['id']}.{i['type']}.tml")
TypeDirectory(directory, info) == <<directory, info.type>>
TmlFile(directory, info) == <<directory, info.type, <<info.id, info.type, "tml">>>>

\* mkdir(parents=True, exist_ok=True): the directory and its missing parents
Mkdir(dirs, path) == dirs \cup {SubSeq(path, 1, k) : k \in 1..Len(path)}

\* write_text: creates the file or replaces its text
WriteText(files, path, text) == [f \in DOMAIN files \cup {path} |-> IF f = path THEN text ELSE files[f]]

NoExport == <<"none", <<"none">>>>
NoRecord == <<0, <<"none">>, "absent">>

\* tml_export is called: any guid, with or without a directory, which may or
\* may not exist yet, with or without the directory of some type in it
XInit ==
    /\ xpc = "awaiting"
    /\ xguid \in Guids
    /\ xdirectory \in {"None", "directory"}
    /\ xresp = NoExport
    /\ xdirs \in {{}, {<<"directory">>}}
                 \cup {{<<"directory">>, <<"directory", t>>} : t \in TmlTypes}
    /\ xfiles = [f \in {} |-> 0]
    /\ xresult = NoRecord
    /\ xraised = "none"

\* The export call ends and the rest of tml_export runs, which has no other
\* await: an exception of the transport leaves the function, a caught
\* exception gives the record without edoc, a good record is written when a
\* directory was given and returned.
XRespond ==
    /\ xpc = "awaiting"
    /\ \E status \in {"ok", "badstatus", "raise"} : \E payload \in Payloads :
         LET e == TryRaises(status, payload)
         IN  /\ (status # "ok" => payload = <<"empty">>)
             /\ xresp' = <<status, payload>>
             /\ IF status = "raise"
                THEN /\ xpc' = "raised" /\ xraised' = "ConnectError"
                     /\ UNCHANGED <<xdirs, xfiles, xresult>>
                ELSE IF CatchesDegraded(e)
                THEN /\ xpc' = "returned" /\ xresult' = Degraded(xguid)
                     /\ UNCHANGED <<xdirs, xfiles, xraised>>
                ELSE IF CatchesValueError(e)
                THEN /\ xpc' = "returned" /\ xresult' = Errored(e, payload)
                     /\ UNCHANGED <<xdirs, xfiles, xraised>>
                ELSE IF e # "none"
                THEN /\ xpc' = "raised" /\ xraised' = "RuntimeError"
                     /\ UNCHANGED <<xdirs, xfiles, xresult>>
                ELSE /\ xpc' = "returned" /\ xresult' = <<payload[2], payload[3], "absent">>
                     /\ IF ShouldPersist(xdirectory)
                        THEN /\ xdirs' = Mkdir(xdirs, TypeDirectory(xdirectory, payload[3]))
                             /\ xfiles' = WriteText(xfiles, TmlFile(xdirectory, payload[3]), payload[2])
                        ELSE UNCHANGED <<xdirs, xfiles>>
                     /\ UNCHANGED xraised
    /\ UNCHANGED <<xguid, xdirectory>>
    /\ UNCHANGED <<gvars, tvars, cvars, dvars, kvars, avars>>

XNext == XRespond

(***************************************************************************)
(* Authentication and the keepalive task (_heartbeat)                      *)
(***************************************************************************)
\* the callers that may authenticate on the client, possibly at the same time
AuthCallers == {"session", "refresh"}

\* the bearer tokens the server can issue (r.text)
Tokens == 1..MaxTokens

\* the calls of the session boundary and the path each posts to first
AuthMethods == {"login", "full_access_token", "v1_trusted_authentication", "logout"}

AuthPath(m) ==
    CASE m = "login" -> "api/rest/2.0/auth/session/login"
      [] m = "full_access_token" -> "api/rest/2.0/auth/token/full"
      [] m = "v1_trusted_authentication" -> "callosum/v1/tspublic/v1/session/auth/token"
      [] m = "logout" -> "api/rest/2.0/auth/session/logout"

TokenLoginPath == "callosum/v1/tspublic/v1/session/login/token"
IsActivePath == "callosum/v1/session/isactive"

\* How an awaited request can end for its caller: a response whose status is a
\* success, a response whose status is a failure, an httpx.RequestError (also
\* the one left when the retries are exhausted), the tenacity.RetryError left
\* when the last of the attempts returned an overloaded response.
RequestOutcomes == {"success", "failure", "RequestError", "RetryError"}

IsResponse(o) == o \in {"success", "failure"}

\* asyncio.Task.done()
KDone(t) == ktask[t] \in {"cancelled", "failed", "finished"}

\* `if self._heartbeat_task is not None: self._heartbeat_task.cancel()`:
\* cancel() on a task that is done changes nothing
KeepExisting(requested, task) == requested
CancelExisting(requested, task) ==
    IF task # 0 /\ ~KDone(task) THEN requested \cup {task} ELSE requested

\* logout has no statement about self._heartbeat_task
LogoutCancelsTask(requested, task) == IF task # 0 THEN requested \cup {task} ELSE requested
LogoutCancels(requested, task) == requested

\* the headers a request is built with: the client's headers at that moment
Carried(header) == header

\* `if "Authorization" in self.headers: del self.headers["Authorization"]`
DeleteAuthorization(header) == 0

\* v1_trusted_authentication, lines 207-210: reached once the login post has
\* returned a response, whatever its status
OnlyOnLoginSuccess(o) == o = "success"
TrustedReplaces(o) == IsResponse(o)

\* `except httpx.HTTPError`: httpx.RequestError is one, tenacity.RetryError is not
CatchesEverything(o) == ~IsResponse(o)
HeartbeatCatches(o) == o = "RequestError"

\* What is logged for one isactive request: log.debug("Heartbeat failed: ...")
\* in the except clause; for a response, the log.debug of __after_response__;
\* nothing for an exception that is not caught.
HeartbeatLog(o) ==
    IF HeartbeatCatches(o) THEN "debug: Heartbeat failed"
    ELSE IF IsResponse(o) THEN "debug: <<< HTTP"
    ELSE "none"

NoEvent == <<"none", 0, "none", "none">>

KInit ==
    /\ heartbeat_task = 0
    /\ ktask = <<>>
    /\ kcancel = {}
    /\ kauth = [a \in AuthCallers |-> "idle"]
    /\ authorization = 0
    /\ klast = NoEvent

\* asyncio.create_task(self._heartbeat(), name="THOUGHTSPOT_API_KEEPALIVE")
\* after the cancel() of the task there was
ReplaceHeartbeat ==
    /\ kcancel' = CancelExisting(kcancel, heartbeat_task)
    /\ ktask' = Append(ktask, "created")
    /\ heartbeat_task' = Len(ktask) + 1

\* login, full_access_token or v1_trusted_authentication is called and awaits
\* its post: the request is built with the headers of that moment
KAuthStart(a) ==
    /\ kauth[a] = "idle"
    /\ \E m \in AuthMethods \ {"logout"} :
         /\ m # "login" => Len(ktask) + Cardinality({b \in AuthCallers :
                               kauth[b] \in {"full_access_token", "v1_trusted_authentication", "v1_login"}}) < MaxTasks
         /\ kauth' = [kauth EXCEPT ![a] = m]
         /\ klast' = <<"sent", a, AuthPath(m), Carried(authorization)>>
    /\ UNCHANGED <<heartbeat_task, ktask, kcancel, authorization>>
    /\ UNCHANGED <<gvars, tvars, cvars, dvars, xvars, avars>>

\* logout is called: the Authorization header is deleted, then the post is
\* made and awaited
KLogout(a) ==
    /\ kauth[a] = "idle"
    /\ authorization' = DeleteAuthorization(authorization)
    /\ klast' = <<"sent", a, AuthPath("logout"), Carried(authorization')>>
    /\ kauth' = [kauth EXCEPT ![a] = "logout"]
    /\ kcancel' = LogoutCancels(kcancel, heartbeat_task)
    /\ UNCHANGED <<heartbeat_task, ktask>>
    /\ UNCHANGED <<gvars, tvars, cvars, dvars, xvars, avars>>

\* the post of login or logout ends: its response is returned, its exception
\* raised
KSessionRespond(a) ==
    /\ kauth[a] \in {"login", "logout"}
    /\ \E o \in RequestOutcomes : klast' = <<"returned", a, kauth[a], o>>
    /\ kauth' = [kauth EXCEPT ![a] = "idle"]
    /\ UNCHANGED <<heartbeat_task, ktask, kcancel, authorization>>
    /\ UNCHANGED <<gvars, tvars, cvars, dvars, xvars, avars>>

\* The post of full_access_token ends: on success the token becomes the
\* Authorization header, the existing task is cancelled and
\* asyncio.create_task(self._heartbeat()) replaces it, with no await in between.
KFullAccessToken(a) ==
    /\ kauth[a] = "full_access_token"
    /\ kauth' = [kauth EXCEPT ![a] = "idle"]
    /\ \E o \in RequestOutcomes :
         /\ klast' = <<"returned", a, "full_access_token", o>>
         /\ IF o = "success"
            THEN /\ \E token \in Tokens : authorization' = token
                 /\ ReplaceHeartbeat
            ELSE UNCHANGED <<heartbeat_task, ktask, kcancel, authorization>>
    /\ UNCHANGED <<gvars, tvars, cvars, dvars, xvars, avars>>

\* the first post of v1_trusted_authentication ends: on success the login
\* post is built and awaited
KTrustedToken(a) ==
    /\ kauth[a] = "v1_trusted_authentication"
    /\ \E o \in RequestOutcomes :
         IF o = "success"
         THEN /\ kauth' = [kauth EXCEPT ![a] = "v1_login"]
              /\ klast' = <<"sent", a, TokenLoginPath, Carried(authorization)>>
         ELSE /\ kauth' = [kauth EXCEPT ![a] = "idle"]
              /\ klast' = <<"returned", a, "v1_trusted_authentication", o>>
    /\ UNCHANGED <<heartbeat_task, ktask, kcancel, authorization>>
    /\ UNCHANGED <<gvars, tvars, cvars, dvars, xvars, avars>>

\* the login post of v1_trusted_authentication ends: whatever the status of
\* its response, the existing task is cancelled and replaced; an exception
\* leaves the call before that
KTrustedLogin(a) ==
    /\ kauth[a] = "v1_login"
    /\ kauth' = [kauth EXCEPT ![a] = "idle"]
    /\ \E o \in RequestOutcomes :
         /\ klast' = <<"returned", a, "v1_login", o>>
         /\ IF TrustedReplaces(o)
            THEN ReplaceHeartbeat
            ELSE UNCHANGED <<heartbeat_task, ktask, kcancel>>
    /\ UNCHANGED authorization
    /\ UNCHANGED <<gvars, tvars, cvars, dvars, xvars, avars>>

\* _heartbeat runs from its start, or from the end of asyncio.sleep(30), to
\* `await self.request(...)`: the loop goes on while self._heartbeat_task,
\* whichever task that is by now, is not done
KPing(t) ==
    /\ t \in DOMAIN ktask
    /\ ktask[t] \in {"created", "sleeping"}
    /\ t \notin kcancel
    /\ IF KDone(heartbeat_task)
       THEN /\ ktask' = [ktask EXCEPT ![t] = "finished"]
            /\ UNCHANGED klast
       ELSE /\ ktask' = [ktask EXCEPT ![t] = "requesting"]
            /\ klast' = <<"sent", t, IsActivePath, Carried(authorization)>>
    /\ UNCHANGED <<heartbeat_task, kcancel, kauth, authorization>>
    /\ UNCHANGED <<gvars, tvars, cvars, dvars, xvars, avars>>

\* the isactive request ends: a response or an httpx.HTTPError is followed by
\* the sleep, any other exception ends the task
KPingRespond(t) ==
    /\ t \in DOMAIN ktask
    /\ ktask[t] = "requesting"
    /\ t \notin kcancel
    /\ \E o \in RequestOutcomes :
         /\ ktask' = [ktask EXCEPT ![t] =
                IF IsResponse(o) \/ HeartbeatCatches(o) THEN "sleeping" ELSE "failed"]
         /\ klast' = <<"ping", t, o, HeartbeatLog(o)>>
    /\ UNCHANGED <<heartbeat_task, kcancel, kauth, authorization>>
    /\ UNCHANGED <<gvars, tvars, cvars, dvars, xvars, avars>>

\* CancelledError is thrown into the task at its next step, wherever it
\* stands: before its first step, in the request or in the sleep; _heartbeat
\* catches httpx.HTTPError only
KDeliverCancel(t) ==
    /\ t \in kcancel
    /\ ktask' = [ktask EXCEPT ![t] = "cancelled"]
    /\ kcancel' = kcancel \ {t}
    /\ UNCHANGED <<heartbeat_task, kauth, authorization, klast>>
    /\ UNCHANGED <<gvars, tvars, cvars, dvars, xvars, avars>>

KNext ==
    \/ \E a \in AuthCallers : KAuthStart(a)
    \/ \E a \in AuthCallers : KLogout(a)
    \/ \E a \in AuthCallers : KSessionRespond(a)
    \/ \E a \in AuthCallers : KFullAccessToken(a)
    \/ \E a \in AuthCallers : KTrustedToken(a)
    \/ \E a \in AuthCallers : KTrustedLogin(a)
    \/ \E t \in 1..MaxTasks : KPing(t)
    \/ \E t \in 1..MaxTasks : KPingRespond(t)
    \/ \E t \in 1..MaxTasks : KDeliverCancel(t)

(***************************************************************************)
(* Pagination: AnswerMiddleware.all draining metadata/list                 *)
(***************************************************************************)
Authors == {"user", "system", "tsadmin"}

\* what the server can hold: answer i is <<i, authorName>>
ServerContents ==
    UNION {{[i \in 1..n |-> <<i, f[i]>>] : f \in [1..n -> Authors]} : n \in 0..MaxAnswers}

Min(a, b) == IF a < b THEN a ELSE b

\* answer['authorName'] not in ('system', 'tsadmin')
NotSystemContent(answer) == answer[2] \notin {"system", "tsadmin"}

\* `if exclude_system_content: to_extend = [answer for answer in to_extend if ...]`
RECURSIVE Filter(_, _)
Filter(to_extend, exclude) ==
    IF ~exclude \/ to_extend = <<>> THEN to_extend
    ELSE IF NotSystemContent(Head(to_extend))
         THEN <<Head(to_extend)>> \o Filter(Tail(to_extend), exclude)
         ELSE Filter(Tail(to_extend), exclude)

\* The pages a server can answer a request (offset, batchsize) with: the
\* records that follow the offset, at least one and at most batchsize of them
\* while there are any, with isLastBatch set on the page that reaches the end
\* if the server sets the flag at all.
Pages(off, batchsize) ==
    LET remaining == Len(server_headers) - off
    IN  IF remaining <= 0
        THEN {<<<<>>, server_flags>>}
        ELSE {<<SubSeq(server_headers, off + 1, off + k), server_flags /\ k = remaining>> :
                 k \in 1..Min(batchsize, remaining)}

\* `offset += len(to_extend)`, before the filter
NextOffset(off, page, size) == off + Len(page)

\* `if not to_extend and not answers: raise ContentDoesNotExist`, looked at
\* after every page
NothingFound(to_extend, all) == to_extend = <<>> /\ all = <<>>

\* `if data['isLastBatch']: break`
Break(page, last) == last

NoData == <<<<>>, FALSE>>

AInit ==
    /\ server_headers \in ServerContents
    /\ server_flags \in BOOLEAN
    /\ chunksize \in 1..MaxChunk
    /\ exclude_system_content \in BOOLEAN
    /\ apc = "request"
    /\ offset = 0
    /\ answers = <<>>
    /\ offsets = <<>>
    /\ data = NoData

\* self.ts.api._metadata.list(..., batchsize=chunksize, offset=offset)
ARequest ==
    /\ apc = "request"
    /\ Len(offsets) < MaxRequests
    /\ offsets' = Append(offsets, offset)
    /\ apc' = "waiting"
    /\ UNCHANGED <<server_headers, server_flags, chunksize, exclude_system_content, offset, answers, data>>
    /\ UNCHANGED <<gvars, tvars, cvars, dvars, xvars, kvars>>

\* the response arrives and the rest of the loop body runs: the offset moves
\* on, the page is filtered and appended, then the call raises, returns or
\* goes round the loop
ARespond ==
    /\ apc = "waiting"
    /\ \E page \in Pages(offset, chunksize) :
         LET to_extend == Filter(page[1], exclude_system_content)
             extended == answers \o to_extend
         IN  /\ data' = page
             /\ offset' = NextOffset(offset, page[1], chunksize)
             /\ answers' = extended
             /\ apc' = IF NothingFound(to_extend, extended) THEN "raised"
                       ELSE IF Break(page[1], page[2]) THEN "returned"
                       ELSE "request"
    /\ UNCHANGED <<server_headers, server_flags, chunksize, exclude_system_content, offsets>>
    /\ UNCHANGED <<gvars, tvars, cvars, dvars, xvars, kvars>>

ANext ==
    \/ ARequest
    \/ ARespond

(***************************************************************************)
(* Specifications                                                          *)
(***************************************************************************)
\* no orchestrator call in progress
GIdle ==
    /\ orch = "fetch"
    /\ nUnits = 0
    /\ compat_ts_version = NoVersion
    /\ calls = <<>>
    /\ out_of_order = FALSE
    /\ max_concurrent = 0
    /\ gpc = "returned"
    /\ unit = <<>>
    /\ out = <<>>
    /\ gsem = 0
    /\ errors = {}
    /\ aborting = FALSE
    /\ cancelReq = {}
    /\ idx = 1
    /\ results = <<>>
    /\ raisedExc = "none"

\* no request in progress
TIdle ==
    /\ concurrency = 1
    /\ free = 1
    /\ pc = [c \in Callers |-> "idle"]
    /\ endpoint = [c \in Callers |-> "none"]
    /\ hist = [c \in Callers |-> <<>>]
    /\ waits = [c \in Callers |-> <<>>]
    /\ rlog = [c \in Callers |-> <<>>]
    /\ events = [c \in Callers |-> <<>>]
    /\ delivered = [c \in Callers |-> NoResult]

\* a client without a cache directory, no request in progress
CIdle ==
    /\ cache_directory = "None"
    /\ store = [k \in {} |-> 0]
    /\ creq = NoRequest
    /\ cpc = "idle"
    /\ cattempt = 0
    /\ cnet = 0
    /\ cresp = NoResponse
    /\ previous = NoPrevious

\* no call of dependents in progress
DIdle ==
    /\ dpc = "returned"
    /\ dstatus = "none"
    /\ dtype = "none"
    /\ dchild = <<>>
    /\ dobjects = <<>>
    /\ dreqs = 0
    /\ dresult = <<>>
    /\ draised = "none"

\* no call of tml_export in progress
XIdle ==
    /\ xpc = "returned"
    /\ xguid = 0
    /\ xdirectory = "None"
    /\ xresp = NoExport
    /\ xdirs = {}
    /\ xfiles = [f \in {} |-> 0]
    /\ xresult = NoRecord
    /\ xraised = "none"

\* a client nobody has authenticated on
KIdle ==
    /\ heartbeat_task = 0
    /\ ktask = <<>>
    /\ kcancel = {}
    /\ kauth = [a \in AuthCallers |-> "idle"]
    /\ authorization = 0
    /\ klast = NoEvent

\* no call of AnswerMiddleware.all in progress
AIdle ==
    /\ server_headers = <<>>
    /\ server_flags = TRUE
    /\ chunksize = 1
    /\ exclude_system_content = TRUE
    /\ apc = "returned"
    /\ offset = 0
    /\ answers = <<>>
    /\ offsets = <<>>
    /\ data = NoData

WIdle == DIdle /\ XIdle /\ KIdle /\ AIdle

\* concurrent requests through one client instance
Init == TInit /\ GIdle /\ CIdle /\ WIdle
Next == TNext
Spec == Init /\ [][Next]_vars

\* one orchestrator call over its task group
InitGroup == GInit /\ TIdle /\ CIdle /\ WIdle
NextGroup == GNext
SpecGroup == InitGroup /\ [][NextGroup]_vars

\* one BoundedTaskGroup with fewer slots than units
InitTaskGroup == TaskGroupInit /\ TIdle /\ CIdle /\ WIdle
NextTaskGroup == TaskGroupNext
SpecTaskGroup == InitTaskGroup /\ [][NextTaskGroup]_vars

\* one caller's requests, one after the other, through the cache of one client
InitCache == CInit /\ GIdle /\ TIdle /\ WIdle
NextCache == CNext
SpecCache == InitCache /\ [][NextCache]_vars

\* one call of dependents
InitDependents == DInit /\ GIdle /\ TIdle /\ CIdle /\ XIdle /\ KIdle /\ AIdle
NextDependents == DNext
SpecDependents == InitDependents /\ [][NextDependents]_vars

\* one call of tml_export
InitExport == XInit /\ GIdle /\ TIdle /\ CIdle /\ DIdle /\ KIdle /\ AIdle
NextExport == XNext
SpecExport == InitExport /\ [][NextExport]_vars

\* authentications on one client and the keepalive tasks they start
InitKeepalive == KInit /\ GIdle /\ TIdle /\ CIdle /\ DIdle /\ XIdle /\ AIdle
NextKeepalive == KNext
SpecKeepalive == InitKeepalive /\ [][NextKeepalive]_vars

\* one call of permissions over more identifiers than its cap
InitPermissions == PermissionsInit /\ TIdle /\ CIdle /\ WIdle
NextPermissions == PermissionsNext
SpecPermissions == InitPermissions /\ [][NextPermissions]_vars

\* one call of AnswerMiddleware.all
InitAnswers == AInit /\ GIdle /\ TIdle /\ CIdle /\ DIdle /\ XIdle /\ KIdle
NextAnswers == ANext
SpecAnswers == InitAnswers /\ [][NextAnswers]_vars

(***************************************************************************)
(* Properties of the task group and the orchestrators (SpecGroup)          *)
(***************************************************************************)
GroupFinished == gpc \in {"classify", "returned", "raised"}

\* the group was left without an ExceptionGroup: the classification loop runs
GroupCompleted == gpc \in {"classify", "returned"} \/ (gpc = "raised" /\ raisedExc # "ExceptionGroup")

\* C1: a unit that raises cancels no sibling: once the group has finished, every
\* unit has run to its own result or its own failure.
C1_SiblingsRunToCompletion ==
    GroupFinished => \A k \in Units : unit[k] \in {"done", "error"}

\* the bodies of the first n units whose task returned a successful response (or
\* a drained list), in submission order: concatenated, or one entry per unit
RECURSIVE Kept(_, _)
Kept(flat, n) ==
    IF n = 0 THEN <<>>
    ELSE IF out[n][1] = "ok"
         THEN IF flat THEN Kept(flat, n - 1) \o out[n][2] ELSE Kept(flat, n - 1) \o <<out[n][2]>>
         ELSE Kept(flat, n - 1)

\* C2: fetch_all with a type whose drain fails with an HTTP error does not raise
\* and returns the complete result sets of the other types.
C2_FetchAllSkipsFailedType ==
    (/\ orch = "fetch_all"
     /\ nUnits >= 2
     /\ gpc \in {"returned", "raised"}
     /\ \E k \in Units : out[k][1] = "raise" /\ IsHTTPError(out[k][2]))
    => (gpc = "returned" /\ results = Kept(TRUE, nUnits))

\* C3: in fetch and permissions, once the group has completed, a unit whose
\* response fails its status check contributes nothing, every other unit's
\* payload is in the result untouched, and the call does not raise.
C3_StatusFailureIsolated ==
    (orch \in {"fetch", "permissions"} /\ GroupCompleted)
    => (/\ gpc # "raised"
        /\ results = Kept(orch = "fetch", idx - 1)
        /\ (gpc = "returned" => idx = nUnits + 1))

C3_Witness ==
    /\ orch = "fetch"
    /\ gpc = "returned"
    /\ nUnits = 3
    /\ out[2][1] = "badstatus"
    /\ out[1] = <<"ok", Body(1, 2)>>
    /\ out[3] = <<"ok", Body(3, 1)>>
    /\ results = <<<<1, 1>>, <<1, 2>>, <<3, 1>>>>

(***************************************************************************)
(* Properties of the transport (Spec)                                      *)
(***************************************************************************)
\* C4: the number of requests in flight past the admission gate never exceeds
\* the configured concurrency, and a caller that arrives when every slot is
\* taken cannot pass the gate.
C4_InFlightBounded ==
    /\ InFlight <= concurrency
    /\ \A c \in Callers : (pc[c] = "waiting" /\ InFlight = concurrency) => ~ENABLED Acquire(c)

C4_Witness ==
    /\ concurrency = 2
    /\ pc["keepalive"] \in InGate
    /\ pc["workflow"] \in InGate
    /\ pc["direct"] = "waiting"

\* C5: every slot taken is given back exactly once on every exit path: the
\* free slots are never below zero nor above the maximum, each request past
\* the gate holds exactly one, and with no request in progress all are free.
C5_SlotsConserved ==
    /\ free >= 0
    /\ free <= concurrency
    /\ free + InFlight = concurrency
    /\ (\A c \in Callers : pc[c] \in {"idle", "done"}) => free = concurrency

\* three requests have ended, one on each kind of exit path
C5_Witness ==
    /\ \A c \in Callers : pc[c] = "done"
    /\ delivered["workflow"] = <<"return", "ok", 1>>
    /\ delivered["direct"] = <<"raise", "RequestError", 3>>
    /\ delivered["keepalive"] = <<"raise", "CancelledError", 1>>
    /\ Len(waits["keepalive"]) = 1
    /\ free = concurrency

\* the retryable conditions as the specification states them
RetryableCondition(o, ep) == (o = "RequestError" /\ ep # "metadata_tml_import") \/ o = "overloaded"

\* C6: first two attempts fail with a retryable condition, the third succeeds:
\* the caller gets the third attempt's response, and the two backoff delays
\* are non-decreasing, the second exp_base times the first.
C6_ThirdAttemptSucceeds ==
    \A c \in Callers :
        (/\ pc[c] = "done"
         /\ Len(hist[c]) = 3
         /\ RetryableCondition(hist[c][1], endpoint[c])
         /\ RetryableCondition(hist[c][2], endpoint[c])
         /\ hist[c][3] = "ok")
        => (/\ delivered[c] = <<"return", "ok", 3>>
            /\ Len(waits[c]) = 2
            /\ waits[c][1] <= waits[c][2]
            /\ waits[c][1] = 1
            /\ waits[c][2] = exp_base * waits[c][1])

C6_Witness ==
    \E c \in Callers :
        /\ pc[c] = "done"
        /\ hist[c] = <<"RequestError", "overloaded", "ok">>
        /\ delivered[c] = <<"return", "ok", 3>>
        /\ waits[c] = <<1, 4>>

\* C7: all three attempts fail with a retryable condition: what the caller
\* receives is the final attempt's own failure, not another error.
C7_LastFailureUnchanged ==
    \A c \in Callers :
        (/\ pc[c] = "done"
         /\ Len(hist[c]) = 3
         /\ \A i \in 1..3 : RetryableCondition(hist[c][i], endpoint[c]))
        => (delivered[c][2] = hist[c][3] /\ delivered[c][3] = 3)

\* C8: no request is attempted more than 3 times.
C8_AtMostThreeAttempts ==
    \A c \in Callers : Len(hist[c]) <= 3

C8_Witness ==
    \E c \in Callers :
        /\ pc[c] = "done"
        /\ Len(hist[c]) = 3
        /\ hist[c][3] = "RequestError"

\* C9: a transient connection error on a TML import ends the request: that
\* attempt is the last, the error is raised to the caller, and when it was the
\* first attempt nothing was slept or logged.
C9_ImportNotRetried ==
    \A c \in Callers : \A i \in 1..Len(hist[c]) :
        (endpoint[c] = "metadata_tml_import" /\ hist[c][i] = "RequestError")
        => (/\ i = Len(hist[c])
            /\ pc[c] = "done"
            /\ delivered[c] = <<"raise", "RequestError", i>>
            /\ (i = 1 => waits[c] = <<>> /\ rlog[c] = <<>>))

C9_Witness ==
    /\ pc["direct"] = "done"
    /\ endpoint["direct"] = "metadata_tml_import"
    /\ hist["direct"] = <<"RequestError">>
    /\ delivered["direct"] = <<"raise", "RequestError", 1>>

\* C10: an attempt is followed by a sleep and another attempt only if it ended
\* in a retryable condition; any other outcome ends the request with that
\* outcome handed to the caller, after one attempt if it was the first.
C10_OnlyRetryableRetried ==
    \A c \in Callers :
        LET n == Len(hist[c])
        IN  /\ \A i \in 1..(n - 1) : RetryableCondition(hist[c][i], endpoint[c])
            /\ (pc[c] = "sleeping" => RetryableCondition(hist[c][n], endpoint[c]))
            /\ Len(waits[c]) <= n
            /\ (n >= 1 /\ ~RetryableCondition(hist[c][n], endpoint[c]))
               => (/\ pc[c] = "done"
                   /\ delivered[c][2] = hist[c][n]
                   /\ delivered[c][3] = n
                   /\ delivered[c][1] = (IF hist[c][n] \in {"ok", "error_status"} THEN "return" ELSE "raise"))
            /\ (n >= 1 /\ ~RetryableCondition(hist[c][1], endpoint[c])) => n = 1

C10_Witness ==
    \E c \in Callers :
        /\ pc[c] = "done"
        /\ hist[c] = <<"error_status">>
        /\ delivered[c] = <<"return", "error_status", 1>>
        /\ waits[c] = <<>>

\* C18: every retry is logged before its backoff sleep: attempt n ends, a log
\* record with number n is emitted, the sleep begins, attempt n + 1 starts; an
\* attempt that is not retried is not logged.
C18_RetryLoggedBeforeSleep ==
    \A c \in Callers :
        LET ev == events[c]
        IN  /\ \A i \in 1..Len(ev) :
                /\ ev[i][1] = "sleep" =>
                      (i >= 3 /\ ev[i - 1] = <<"log", ev[i][2]>> /\ ev[i - 2] = <<"end", ev[i][2]>>)
                /\ ev[i][1] = "log" =>
                      (/\ i >= 2 /\ ev[i - 1] = <<"end", ev[i][2]>>
                       /\ i < Len(ev) /\ ev[i + 1] = <<"sleep", ev[i][2]>>)
                /\ (ev[i][1] = "start" /\ ev[i][2] > 1) => ev[i - 1] = <<"sleep", ev[i][2] - 1>>
            /\ \A n \in 1..Len(hist[c]) :
                   (\E i \in 1..Len(ev) : ev[i] = <<"log", n>>)
                   <=> (\E i \in 1..Len(ev) : ev[i] = <<"sleep", n>>)
            /\ \A n \in 1..(Len(hist[c]) - 1) : \E i \in 1..Len(ev) : ev[i] = <<"log", n>>
            /\ (pc[c] = "done" /\ delivered[c][2] # "CancelledError")
               => ev[Len(ev)] = <<"end", Len(hist[c])>>

C18_Witness ==
    \E c \in Callers :
        /\ pc[c] = "done"
        /\ hist[c] = <<"overloaded", "RequestError", "error_status">>
        /\ events[c] = << <<"start", 1>>, <<"end", 1>>, <<"log", 1>>, <<"sleep", 1>>,
                          <<"start", 2>>, <<"end", 2>>, <<"log", 2>>, <<"sleep", 2>>,
                          <<"start", 3>>, <<"end", 3>> >>

\* the units executing their work, each inside `async with self._semaphore`
Executing == {k \in Units : unit[k] = "running"}

\* C19: at most max_concurrent units of one BoundedTaskGroup execute at a time;
\* a unit holds a slot exactly while it executes, whatever its outcome, so no
\* slot is held once the group has finished.
C19_GroupSlotsBounded ==
    /\ Cardinality(Executing) <= max_concurrent
    /\ max_concurrent - gsem = Cardinality(Executing)
    /\ \A k \in Units : TaskDone(k) => k \notin Executing
    /\ GroupFinished => gsem = max_concurrent

C19_Witness ==
    /\ nUnits > max_concurrent
    /\ GroupFinished
    /\ gsem = max_concurrent
    /\ \E k \in Units : unit[k] = "done"
    /\ \E k \in Units : unit[k] = "error"
    /\ \E k \in Units : unit[k] = "cancelled"

\* C20: no result is inspected before every unit of the batch is submitted and
\* has finished, and no orchestrator leaves on the first success or failure:
\* when the call ends, every unit has run to its own end and been inspected.
C20_WholeBatchBeforeInspection ==
    /\ (gpc \in {"classify", "returned"} \/ idx > 1 \/ results # <<>>)
       => \A k \in Units : TaskDone(k)
    /\ gpc \in {"returned", "raised"} => \A k \in Units : unit[k] # "cancelled"
    /\ gpc = "returned" => idx = nUnits + 1

(***************************************************************************)
(* Properties of the response cache (SpecCache)                            *)
(***************************************************************************)
\* the request just answered is the one answered before it, sent again
Repeated == cpc = "done" /\ creq[1] = previous[1] /\ creq[2] = previous[2]

CacheEnabled == cache_directory # "None"

\* the fingerprint of the request in progress
Key == Fingerprint(creq[1], creq[2], creq[3])

\* C11 as stated: of two requests with identical fingerprint issued one after
\* the other without the cache-bust marker on a cache-enabled client, the second
\* causes no network call and returns the content of the first response.
C11_RepeatServedFromCache ==
    (Repeated /\ CacheEnabled /\ ~creq[3] /\ ~previous[3])
    => (cnet = 0 /\ cresp[3] = previous[4])

\* C11, amended: the same, for an endpoint carrying the cacheable tag whose
\* first request was answered with a successful response.
C11_TaggedRepeatServedFromCache ==
    (/\ Repeated /\ CacheEnabled /\ ~creq[3] /\ ~previous[3]
     /\ creq[1] \in mark_cacheable
     /\ previous[4] # 0)
    => (cnet = 0 /\ Successful(cresp) /\ cresp[3] = previous[4])

C11_Witness ==
    /\ Repeated /\ CacheEnabled /\ ~creq[3] /\ ~previous[3]
    /\ creq[1] = "metadata_search"
    /\ previous[4] = MaxContent
    /\ cnet = 0
    /\ cresp[3] = MaxContent

\* C12: a request carrying the cache-bust marker goes to the network on every
\* attempt and is never answered from the cache, even when an entry for its
\* fingerprint exists.
C12_BustReachesNetwork ==
    creq[3] =>
        /\ cpc \in {"sleeping", "done"} => cnet = cattempt
        /\ cpc = "done" => (cnet >= 1 /\ cresp[1] = "network")

C12_Witness ==
    /\ Repeated /\ CacheEnabled /\ creq[3]
    /\ creq[1] \in mark_cacheable
    /\ previous[4] # 0
    /\ cnet >= 1

\* C13: a cache-bust request overwrites the entry of its fingerprint with the
\* response it obtained, the same request sent next without the marker is
\* served that response, and no entry changes or disappears otherwise.
C13_BustOverwritesEntry ==
    /\ [](/\ (cpc = "done" /\ creq[3] /\ CacheEnabled /\ creq[1] \in mark_cacheable /\ Successful(cresp))
             => (Key \in DOMAIN store /\ store[Key] = cresp[3])
          /\ (Repeated /\ ~creq[3] /\ previous[3] /\ CacheEnabled /\ creq[1] \in mark_cacheable /\ previous[4] # 0)
             => (cresp[1] = "cache" /\ cresp[3] = previous[4]))
    /\ [][\A k \in DOMAIN store :
             /\ k \in DOMAIN store'
             /\ store'[k] # store[k] => (creq[3] /\ k = Key /\ cpc = "attempting")]_vars

\* the bust request has just replaced the entry its predecessor created
C13_Witness ==
    /\ Repeated /\ CacheEnabled /\ creq[3] /\ ~previous[3]
    /\ creq[1] \in mark_cacheable
    /\ previous[4] # 0
    /\ Successful(cresp)
    /\ cresp[3] # previous[4]
    /\ store[Key] = cresp[3]

\* the operations that write to the remote service
WriteEndpoints ==
    {"users_create", "users_update", "groups_create", "groups_update",
     "metadata_tml_import", "login", "logout"}

\* C14: only requests to tagged endpoints are stored or served from the cache,
\* and a request that writes to the remote service always reaches the network.
C14_WritesNeverCached ==
    /\ cresp[1] = "cache" => creq[1] \in mark_cacheable
    /\ \A k \in DOMAIN store : \E ep \in CacheEndpoints \cap mark_cacheable : k[2] = Path(ep)
    /\ (cpc = "done" /\ creq[1] \in WriteEndpoints) => (cnet >= 1 /\ cresp[1] = "network")

\* C15: only a successful response is cached: the store changes only when a
\* network attempt ends in a successful response, and what it then holds for
\* the request's fingerprint is that response.
C15_OnlySuccessCached ==
    [][store' # store =>
          /\ cpc = "attempting" /\ cpc' = "done"
          /\ cresp'[1] = "network" /\ Successful(cresp')
          /\ Key \in DOMAIN store' /\ store'[Key] = cresp'[3]
          /\ \A k \in DOMAIN store' : k # Key => (k \in DOMAIN store /\ store'[k] = store[k])]_vars

\* the same request failed twice in a row: both times it went to the network
\* and nothing was stored
C15_Witness ==
    /\ Repeated /\ CacheEnabled /\ ~creq[3] /\ ~previous[3]
    /\ creq[1] \in mark_cacheable
    /\ previous[4] = 0
    /\ ~Successful(cresp)
    /\ cnet >= 1
    /\ Key \notin DOMAIN store

\* C16: a client constructed without a cache directory never stores an entry,
\* never answers from the cache, and sends every attempt to the network.
C16_NoDirectoryNoCache ==
    cache_directory = "None" =>
        /\ DOMAIN store = {}
        /\ cresp[1] # "cache"
        /\ cpc \in {"sleeping", "done"} => cnet = cattempt

C16_Witness ==
    /\ cache_directory = "None"
    /\ Repeated /\ ~creq[3] /\ ~previous[3]
    /\ creq[1] \in mark_cacheable
    /\ previous[4] # 0
    /\ Successful(cresp)
    /\ cnet >= 1

\* C17: a response carries the served-from-cache marker exactly when it was
\* synthesized from a cache entry.
C17_MarkerIffFromCache ==
    cpc = "done" => (cresp[4] <=> cresp[1] = "cache")

C17_Witness ==
    /\ cpc = "done"
    /\ cresp[1] = "cache"
    /\ cresp[4]
    /\ cnet = 0

\* C21: a batch never raises because a unit failed: whenever the call of an
\* orchestrator ends, it has returned, and its result holds the payloads of
\* the units that did not fail.
C21_BatchNeverRaises ==
    gpc \in {"returned", "raised"}
    => (gpc = "returned" /\ results = Kept(orch # "permissions", nUnits))

(***************************************************************************)
(* Properties of dependents (SpecDependents)                               *)
(***************************************************************************)
\* the guids of the records of a result, in order
ResultGuids == [i \in 1..Len(dresult) |-> dresult[i][1]]

\* C22: a root that is not a container and whose nested dependent collections
\* hold A, B and A again yields exactly two records, A then B.
C22_DuplicateDependentOnce ==
    (dpc = "returned" /\ dtype = "LOGICAL_TABLE")
    => \A a, b \in Guids :
          (a # b /\ dobjects[1][2] = <<a, b, a>>)
          => dresult = << <<a, "dependent">>, <<b, "dependent">> >>

C22_Witness ==
    /\ dpc = "returned"
    /\ dtype = "LOGICAL_TABLE"
    /\ dobjects = << <<RootGuid, <<1, 2, 1>>>> >>
    /\ ResultGuids = <<1, 2>>

\* a connection with two tables, each exposing one dependent found nowhere else
TwoTablesOneDependentEach ==
    /\ dpc = "returned"
    /\ dtype = "CONNECTION"
    /\ Len(dobjects) = 2
    /\ Len(dobjects[1][2]) = 1
    /\ Len(dobjects[2][2]) = 1
    /\ dobjects[1][2][1] # dobjects[2][2][1]
    /\ {dobjects[1][2][1], dobjects[2][2][1]} \cap {dobjects[1][1], dobjects[2][1]} = {}

RECURSIVE Discovered(_, _)
Discovered(d, tracked) ==
    IF d = <<>> THEN <<>>
    ELSE (IF tracked THEN <<Head(d)[1]>> ELSE <<>>) \o Head(d)[2] \o Discovered(Tail(d), tracked)

\* the entries of s that occur nowhere earlier in s, in order
RECURSIVE FirstOccurrences(_)
FirstOccurrences(s) ==
    IF s = <<>> THEN <<>>
    ELSE LET front == SubSeq(s, 1, Len(s) - 1)
             x == s[Len(s)]
         IN  IF \E i \in 1..Len(front) : front[i] = x
             THEN FirstOccurrences(front)
             ELSE Append(FirstOccurrences(front), x)

\* C24: the returned list holds no guid twice and lists the guids in the order
\* of their first discovery, top-level records and nested dependents alike.
C24_NoGuidTwiceInDiscoveryOrder ==
    dpc = "returned"
    => (/\ \A i, j \in 1..Len(dresult) : i # j => dresult[i][1] # dresult[j][1]
        /\ ResultGuids = FirstOccurrences(Discovered(dobjects, dtype = "CONNECTION")))

\* a table of the connection is also a dependent of the other table
C24_Witness ==
    /\ dpc = "returned"
    /\ dtype = "CONNECTION"
    /\ dobjects = << <<1, <<2, 3>>>>, <<2, <<3>>>> >>
    /\ ResultGuids = <<1, 2, 3>>

\* C25: a root that is not a container costs exactly one request, no per-child
\* call, and only its dependents are emitted, never its own record.
C25_NonContainerSingleRequest ==
    dtype = "LOGICAL_TABLE"
    => (/\ dreqs = 1
        /\ dchild = <<>>
        /\ \A i \in 1..Len(dresult) :
              /\ dresult[i][2] = "dependent"
              /\ dresult[i][1] # RootGuid
              /\ \E j \in 1..Len(dobjects[1][2]) : dobjects[1][2][j] = dresult[i][1])

C25_Witness ==
    /\ dtype = "LOGICAL_TABLE"
    /\ dpc = "returned"
    /\ Len(dresult) = MaxDeps
    /\ dreqs = 1

\* C26: a root response with a failure status makes dependents raise that error:
\* no per-child call is issued and nothing is returned.
C26_RootFailurePropagates ==
    dstatus = "badstatus"
    => (/\ dpc = "raised"
        /\ draised = "HTTPStatusError"
        /\ dreqs = 1
        /\ dchild = <<>>
        /\ dresult = <<>>)

C26_Witness ==
    /\ dstatus = "badstatus"
    /\ dpc = "raised"
    /\ draised = "HTTPStatusError"

(***************************************************************************)
(* Properties of tml_export (SpecExport)                                   *)
(***************************************************************************)
\* the export response had a success status and a first record reporting ERROR
ExportReportedError ==
    xresp[1] = "ok" /\ xresp[2][1] = "record" /\ xresp[2][3].status_code = "ERROR"

\* the export response had a failure status, or a success status and no record
ExportFailedOrEmpty == xresp[1] = "badstatus" \/ (xresp[1] = "ok" /\ xresp[2] = <<"empty">>)

\* the export response had a success status and a first record reporting OK
ExportSucceeded ==
    xresp[1] = "ok" /\ xresp[2][1] = "record" /\ xresp[2][3].status_code = "OK"

\* C27: an export whose payload reports ERROR returns a record with no content
\* and the error detail as info, does not raise, and leaves files and
\* directories as they were, also when a directory was given.
C27_PayloadErrorReturnsInfo ==
    /\ [](ExportReportedError
          => (/\ xpc = "returned"
              /\ xraised = "none"
              /\ xresult[1] = 0
              /\ xresult[2] = xresp[2][3]
              /\ DOMAIN xfiles = {}))
    /\ [][ExportReportedError' => (xdirs' = xdirs /\ xfiles' = xfiles)]_vars

C27_Witness ==
    /\ ExportReportedError
    /\ xpc = "returned"
    /\ xdirectory = "directory"
    /\ xdirs = {}
    /\ xresult[1] = 0

\* C28: an export whose response has a failure status, or no record, returns
\* the degraded record: no content, info holding only the requested guid, the
\* raw response body as diagnostic; it does not raise and writes nothing.
C28_FailureReturnsDegraded ==
    /\ [](ExportFailedOrEmpty
          => (/\ xpc = "returned"
              /\ xraised = "none"
              /\ xresult = <<0, <<"id", xguid>>, "r.text">>
              /\ DOMAIN xfiles = {}))
    /\ [][ExportFailedOrEmpty' => (xdirs' = xdirs /\ xfiles' = xfiles)]_vars

C28_Witness ==
    /\ xresp = <<"ok", <<"empty">>>>
    /\ xpc = "returned"
    /\ xdirectory = "directory"
    /\ xdirs = {}
    /\ xresult[3] = "r.text"

\* C29: a successful export returns the full record with or without a
\* directory; exactly when a directory was given the edoc is written to
\* <directory>/<type>/<id>.<type>.tml, the directories on the way being created.
C29_FileIffDirectory ==
    /\ [](ExportSucceeded
          => LET info == xresp[2][3]
                 file == <<xdirectory, info.type, <<info.id, info.type, "tml">>>>
             IN  /\ xpc = "returned"
                 /\ xresult = <<xresp[2][2], info, "absent">>
                 /\ IF xdirectory = "None"
                    THEN DOMAIN xfiles = {}
                    ELSE /\ DOMAIN xfiles = {file}
                         /\ xfiles[file] = xresp[2][2]
                         /\ {<<xdirectory>>, <<xdirectory, info.type>>} \subseteq xdirs)
    /\ [][ExportSucceeded'
          => IF xdirectory = "None"
             THEN xdirs' = xdirs
             ELSE xdirs' = xdirs \cup {<<xdirectory>>, <<xdirectory, xresp'[2][3].type>>}]_vars

C29_Witness ==
    /\ ExportSucceeded
    /\ xdirectory = "directory"
    /\ xdirs = {<<"directory">>, <<"directory", "ANSWER">>}
    /\ DOMAIN xfiles = {<<"directory", "ANSWER", <<xresp[2][3].id, "ANSWER", "tml">>>>}
    /\ xresult[1] = MaxContent

(***************************************************************************)
(* Properties of the keepalive task (SpecKeepalive)                        *)
(***************************************************************************)
\* the keepalive loops that can still send a request
ActiveLoops == {t \in DOMAIN ktask : ~KDone(t) /\ t \notin kcancel}

\* C30: at most one keepalive loop is active at a time, and it is the task the
\* client holds; a new session token cancels the task held before the
\* replacement is started, and a cancelled loop sends no further request.
C30_OneKeepaliveLoop ==
    /\ [](Cardinality(ActiveLoops) <= 1 /\ ActiveLoops \subseteq {heartbeat_task})
    /\ [][heartbeat_task' # heartbeat_task
          => (/\ ktask'[heartbeat_task'] = "created"
              /\ heartbeat_task # 0 => (KDone(heartbeat_task) \/ heartbeat_task \in kcancel'))]_vars
    /\ [][\A t \in DOMAIN ktask :
             (t \in kcancel \/ ktask[t] = "cancelled") => ktask'[t] \in {ktask[t], "cancelled"}]_vars

\* a second authentication has replaced a loop that was sending: the old task
\* is cancelled, the new one is the only one active
C30_Witness ==
    /\ Len(ktask) >= 2
    /\ ktask[1] = "cancelled"
    /\ heartbeat_task = 2
    /\ ktask[2] = "requesting"
    /\ ActiveLoops = {2}

(***************************************************************************)
(* Properties of the session boundary and the keepalive (SpecKeepalive)    *)
(***************************************************************************)
\* an isactive request of task t ends in this step, the task not cancelled
PingEnds(t) == ktask[t] = "requesting" /\ t \notin kcancel /\ ktask'[t] # "requesting"

\* C31: a keepalive request that fails (an HTTP error, a failure status, the
\* failure left when the retries are exhausted) is logged at debug severity and
\* does not end the loop: the task goes on to its sleep.
C31_KeepaliveFailureNeverEndsLoop ==
    [][\A t \in DOMAIN ktask :
          PingEnds(t) => (/\ ktask'[t] = "sleeping"
                          /\ klast'[1] = "ping" /\ klast'[2] = t
                          /\ klast'[3] # "success" => klast'[4] # "none")]_vars

\* a request is built in this step
Sends == klast' # klast /\ klast'[1] = "sent"

\* C32: every request, the logout request included, carries the credential the
\* client held when the request was made; after the logout request the client
\* holds none; the header changes only by a token being issued or by logout.
C32_CredentialUntilLogout ==
    /\ [][Sends => klast'[4] = authorization]_vars
    /\ [][(Sends /\ klast'[3] = AuthPath("logout")) => authorization' = 0]_vars
    /\ [][authorization' # authorization
          => \/ (Sends /\ klast'[3] = AuthPath("logout"))
             \/ (/\ authorization' \in Tokens
                 /\ klast'[1] = "returned" /\ klast'[3] = "full_access_token"
                 /\ klast'[4] = "success")]_vars

\* the keepalive task is cancelled and replaced in this step
Replaced ==
    /\ heartbeat_task' = Len(ktask) + 1
    /\ ktask' = Append(ktask, "created")
    /\ kcancel' = kcancel \cup (IF heartbeat_task # 0 /\ ~KDone(heartbeat_task) THEN {heartbeat_task} ELSE {})

Untouched == UNCHANGED <<heartbeat_task, ktask, kcancel>>

\* v1_trusted_authentication ends in this step, after its token request failed
TokenStepEnds(a) == kauth[a] = "v1_trusted_authentication" /\ kauth'[a] = "idle"

\* v1_trusted_authentication ends in this step, after its token-login request
LoginStepEnds(a) == kauth[a] = "v1_login" /\ kauth'[a] = "idle"

\* C38 as stated: once the token request has succeeded the keepalive task is
\* cancelled and replaced, however the token-login step ends; when the token
\* request fails the task is left untouched.
C38_ReplacedWheneverTokenStepSucceeds ==
    [][\A a \in AuthCallers :
          /\ LoginStepEnds(a) => Replaced
          /\ TokenStepEnds(a) => Untouched]_vars

\* C38: once the token request has succeeded the keepalive task is cancelled
\* and replaced when the token-login request returns a response, whether its
\* status is a success or a failure; when the token-login request raises, or
\* the token request fails, the task is left untouched.
C38_ReplacedWheneverLoginResponds ==
    [][\A a \in AuthCallers :
          /\ LoginStepEnds(a) => IF klast'[4] \in {"success", "failure"} THEN Replaced ELSE Untouched
          /\ TokenStepEnds(a) => Untouched]_vars

C38_Witness ==
    /\ klast[1] = "returned" /\ klast[3] = "v1_login" /\ klast[4] = "failure"
    /\ Len(ktask) >= 2
    /\ heartbeat_task = Len(ktask)
    /\ ktask[heartbeat_task] = "created"
    /\ (heartbeat_task - 1) \in kcancel

\* caller a enters or leaves login or logout in this step
SessionStep(a) == kauth'[a] # kauth[a] /\ ({kauth[a], kauth'[a]} \cap {"login", "logout"} # {})

\* C39: login and logout leave the keepalive task as it is: login starts none,
\* logout cancels none, and a loop that is running can send its next isactive
\* request whether or not the client still holds a credential.
C39_LoginLogoutLeaveKeepalive ==
    /\ [][\A a \in AuthCallers : SessionStep(a) => Untouched]_vars
    /\ [](\A t \in DOMAIN ktask :
            (ktask[t] \in {"created", "sleeping"} /\ t \notin kcancel /\ t = heartbeat_task)
            => ENABLED KPing(t))

C39_Witness ==
    /\ klast[1] = "sent" /\ klast[3] = AuthPath("logout")
    /\ heartbeat_task # 0
    /\ ktask[heartbeat_task] = "sleeping"
    /\ kcancel = {}
    /\ authorization = 0

(***************************************************************************)
(* Properties of permissions and fetch (SpecPermissions, SpecGroup)        *)
(***************************************************************************)
\* the units whose call returned a response with a success status
SuccessfulUnits == {k \in Units : out[k][1] = "ok"}

\* C34: permissions never runs more than 5 permission calls at a time, and what
\* it returns holds one entry per identifier whose call succeeded, each entry
\* that call's whole payload: as many entries as successful units.
C34_PermissionsOneEntryPerSuccess ==
    orch = "permissions"
    => (/\ Cardinality(Executing) <= PERMISSIONS_CONCURRENCY_MAGIC_NUMBER
        /\ gpc = "returned"
           => (/\ Len(results) = Cardinality(SuccessfulUnits)
               /\ results = Kept(FALSE, nUnits)
               /\ \A i \in 1..Len(results) :
                     \E k \in SuccessfulUnits : results[i] = out[k][2]))

C34_Witness ==
    /\ orch = "permissions"
    /\ nUnits = PERMISSIONS_CONCURRENCY_MAGIC_NUMBER + 1
    /\ gpc = "returned"
    /\ out[3][1] = "badstatus"
    /\ Len(results) = PERMISSIONS_CONCURRENCY_MAGIC_NUMBER
    /\ results[3] = Body(4, MaxRecords)
    /\ Len(results[3]) >= 2

\* C35: the request shape of every unit of permissions follows from the
\* compatibility version alone, the bare identifier list below 10.3.0 and the
\* typed metadata list from 10.3.0 on, and every call, in either branch, has
\* the extended timeout.
C35_ShapeByVersionExtendedTimeout ==
    orch = "permissions"
    => \A k \in Units :
          calls[k] # NoCall
          => (/\ calls[k][2][1] = (IF VersionLess(compat_ts_version, Threshold) THEN "id" ELSE "metadata")
              /\ calls[k][3] = FIFTEEN_MINUTES)

\* the part of C35 about the request shape
ShapeByVersion ==
    orch = "permissions"
    => \A k \in Units :
          calls[k] # NoCall
          => calls[k][2] = (IF VersionLess(compat_ts_version, Threshold)
                            THEN <<"id", <<k>>>>
                            ELSE <<"metadata", <<<<"type", k>>>>>>)

\* the records of the units 1..n whose call succeeded, unit after unit in the
\* order of submission
RECURSIVE InSubmissionOrder(_)
InSubmissionOrder(n) ==
    IF n = 0 THEN <<>>
    ELSE InSubmissionOrder(n - 1) \o (IF n \in SuccessfulUnits THEN out[n][2] ELSE <<>>)

\* C40: what fetch returns is the records of the successful units concatenated
\* in the order in which the identifiers were submitted, whatever the order in
\* which the units completed: the list is a function of the units' responses.
C40_FetchInSubmissionOrder ==
    (orch = "fetch" /\ gpc = "returned") => results = InSubmissionOrder(nUnits)

C40_Witness ==
    /\ orch = "fetch"
    /\ gpc = "returned"
    /\ nUnits = 3
    /\ out_of_order
    /\ SuccessfulUnits = {1, 2, 3}
    /\ results = <<<<1, 1>>, <<2, 1>>, <<2, 2>>, <<3, 1>>>>

(***************************************************************************)
(* Properties of the pagination drain (SpecAnswers)                        *)
(***************************************************************************)
\* the response to the request in flight is taken in this step
PageTaken == apc = "waiting" /\ apc' # "waiting"

AnswersEnded == apc \in {"returned", "raised"}

\* the answers of the whole drain that pass the filters
PassingAnswers == Filter(server_headers, exclude_system_content)

\* a request is made only when none is in flight, and at the current offset
OneRequestAtATime ==
    [][offsets' # offsets
       => (/\ apc = "request" /\ apc' = "waiting"
           /\ offsets' = Append(offsets, offset))]_vars

\* every page moves the offset on by the number of records it returned
OffsetFollowsPage == [][PageTaken => offset' = offset + Len(data'[1])]_vars

\* what has been accumulated is what passes the filter among the records
\* before the offset, in the server's order: nothing skipped, nothing twice
ConcatenationOfPages ==
    [](answers = Filter(SubSeq(server_headers, 1, offset), exclude_system_content))

StrictlyIncreasingOffsets ==
    [](\A i \in 1..(Len(offsets) - 1) : offsets[i] < offsets[i + 1])

\* C33: within one drain the pages are requested one at a time, in strictly
\* increasing offset order, each offset being the previous one plus the number
\* of records of the previous page, and the result is the concatenation of the
\* pages in that order, no record skipped or fetched twice.
C33_PagesInOffsetOrder ==
    /\ OneRequestAtATime
    /\ OffsetFollowsPage
    /\ ConcatenationOfPages
    /\ StrictlyIncreasingOffsets

\* C36: the drain ends on either signal: a response that carries the
\* last-batch flag, or a page that comes back empty.
C36_EndsOnEitherSignal ==
    [][(PageTaken /\ (data'[2] \/ data'[1] = <<>>)) => apc' \in {"returned", "raised"}]_vars

\* C37: the call raises ContentDoesNotExist exactly when the whole drain holds
\* no answer that passes the filters, and what it returns is every answer of
\* every page that passes the system-content filter.
C37_RaisesIffNothingPasses ==
    /\ AnswersEnded => (apc = "raised" <=> PassingAnswers = <<>>)
    /\ apc = "returned" => answers = PassingAnswers

====
